---- MODULE Spec2Model ----
(***************************************************************************)
(* A model of the oatmeal library's Grid<T> container (src/src/oatmeal/    *)
(* grid.h): the grid object, its bounds-checked cell access, its row       *)
(* ranges and the GridRectPoints region iterator.                          *)
(*                                                                         *)
(* Machine integers are modelled with their conversions but with scaled    *)
(* widths: `int` is the signed range IntMin..IntMax and `size_t` the       *)
(* unsigned range 0..SizeMax, arithmetic on size_t being modulo SizeMod.   *)
(* As on the target (LP64), size_t is wider than int, so every             *)
(* non-negative int converts to size_t unchanged.                          *)
(***************************************************************************)
EXTENDS Integers, Sequences, FiniteSets, TLC

\* ------------------------------------------------------------------ bounds
\* Largest x_count / y_count of a constructed grid.
MaxDim == 2
\* Number of successful cell writes explored in one behaviour.
MaxWrites == 2
\* Number of begin()..end() traversals made of one range object.
MaxPasses == 2

\* ------------------------------------------------------- machine integers
\* Point::value_type (int), scaled to 8 bits.
IntMax == 127
IntMin == -IntMax - 1
IntMod == 2 * (IntMax + 1)
\* Grid::size_type (std::size_t), scaled to 12 bits.
SizeMax == 4095
SizeMod == SizeMax + 1

\* int -> size_t (modular, as the usual arithmetic conversions do).
ToSize(i) == i % SizeMod
\* size_t -> int (modular narrowing).
ToInt(n) == LET m == n % IntMod IN IF m > IntMax THEN m - IntMod ELSE m

\* ------------------------------------------------------------------ values
\* Cell values written by callers (Grid<char>, Grid<int> in the tests).
Values == {0, 1}
\* Coordinates callers pass to the cell accessors: one below zero up to MaxDim,
\* so that x = x_count and y = y_count are tried on every grid but the largest.
Coords == -1 .. MaxDim
Dims == 0 .. MaxDim

Point(x, y) == [x |-> x, y |-> y]
Points == {Point(x, y) : x \in Coords, y \in Coords}

\* ----------------------------------------------------------------- results
\* The outcome of a call: a normal return or a thrown exception.
Return(v) == [kind |-> "ok", msg |-> "", val |-> v, flag |-> FALSE]
ReturnBool(b) == [kind |-> "ok", msg |-> "", val |-> 0, flag |-> b]
Throw(k, m) == [kind |-> k, msg |-> m, val |-> 0, flag |-> FALSE]
\* An access outside the vector's storage: undefined behaviour, any value.
Undefined(v) == [kind |-> "ub", msg |-> "", val |-> v, flag |-> FALSE]
NoResult == [kind |-> "none", msg |-> "", val |-> 0, flag |-> FALSE]

\* -------------------------------------------------------------------- Grid
\* The initializer of GridTest.ConstructorInitWithFunc.
init(x, y) == y * 100 + x

\* Grid(x_count, y_count, defaultValue): x_count * y_count copies.
GridFill_sum_of_counts(x_count, y_count, defaultValue) ==
  [x_count_ |-> x_count,
   y_count_ |-> y_count,
   cells_   |-> [i \in 1 .. ((x_count + y_count) % SizeMod) |-> defaultValue]]
GridFill(x_count, y_count, defaultValue) ==
  [x_count_ |-> x_count,
   y_count_ |-> y_count,
   cells_   |-> [i \in 1 .. ((x_count * y_count) % SizeMod) |-> defaultValue]]

\* The inner loop of Grid(x_count, y_count, init): x from 0 to x_count_ - 1.
RECURSIVE InitRow(_, _, _, _)
InitRow(x_count, y, x, cells) ==
  IF x < x_count
    THEN InitRow(x_count, y, x + 1, Append(cells, init(x, y)))
    ELSE cells

\* The outer loop of Grid(x_count, y_count, init): y from 0 to y_count_ - 1.
RECURSIVE InitRows(_, _, _, _)
InitRows(x_count, y_count, y, cells) ==
  IF y < y_count
    THEN InitRows(x_count, y_count, y + 1, InitRow(x_count, y, 0, cells))
    ELSE cells

\* Grid(x_count, y_count, init).
GridInit(x_count, y_count) ==
  [x_count_ |-> x_count,
   y_count_ |-> y_count,
   cells_   |-> InitRows(x_count, y_count, 0, <<>>)]

\* unchecked_xy_index(x, y): y * x_count_ + x in size_t arithmetic.
unchecked_xy_index_colmajor(this, x, y) ==
  (ToSize(x) * this.y_count_ + ToSize(y)) % SizeMod
unchecked_xy_index(this, x, y) ==
  (ToSize(y) * this.x_count_ + ToSize(x)) % SizeMod

XNegative == "x must be a positive value"
YNegative == "y must be a positive value"
XTooLarge == "x must be less than number of columns in grid"
YTooLarge == "y must be less than number of rows in grid"

\* xy_index(x, y): the bounds checks in the order the code makes them.
xy_index_no_upper_x(this, x, y) ==
  IF x < 0 THEN Throw("out_of_range", XNegative)
  ELSE IF y < 0 THEN Throw("out_of_range", YNegative)
  ELSE IF ToSize(y) >= this.y_count_ THEN Throw("out_of_range", YTooLarge)
  ELSE Return(unchecked_xy_index(this, x, y))
xy_index_swapped_messages(this, x, y) ==
  IF x < 0 THEN Throw("out_of_range", YNegative)
  ELSE IF y < 0 THEN Throw("out_of_range", XNegative)
  ELSE IF ToSize(x) >= this.x_count_ THEN Throw("out_of_range", YTooLarge)
  ELSE IF ToSize(y) >= this.y_count_ THEN Throw("out_of_range", XTooLarge)
  ELSE Return(unchecked_xy_index(this, x, y))
xy_index(this, x, y) ==
  IF x < 0 THEN Throw("out_of_range", XNegative)
  ELSE IF y < 0 THEN Throw("out_of_range", YNegative)
  ELSE IF ToSize(x) >= this.x_count_ THEN Throw("out_of_range", XTooLarge)
  ELSE IF ToSize(y) >= this.y_count_ THEN Throw("out_of_range", YTooLarge)
  ELSE Return(unchecked_xy_index(this, x, y))

\* contains_point(p).
contains_point_inclusive(this, p) ==
  /\ p.x >= 0
  /\ p.y >= 0
  /\ ToSize(p.x) <= this.x_count_
  /\ ToSize(p.y) <= this.y_count_
contains_point(this, p) ==
  /\ p.x >= 0
  /\ p.y >= 0
  /\ ToSize(p.x) < this.x_count_
  /\ ToSize(p.y) < this.y_count_

\* operator[](p) const: the outcomes of reading cells_[xy_index(p)].
operator_index_read(this, p) ==
  LET i == xy_index(this, p.x, p.y) IN
  IF i.kind # "ok" THEN {i}
  ELSE IF i.val < Len(this.cells_) THEN {Return(this.cells_[i.val + 1])}
  ELSE {Undefined(u) : u \in Values}

\* operator[](p) = v: the grid after the assignment through the reference.
operator_index_write_unchecked(this, p, v) ==
  LET i == unchecked_xy_index(this, p.x, p.y) IN
  IF i < Len(this.cells_)
    THEN [this EXCEPT !.cells_[i + 1] = v]
    ELSE this
operator_index_write_inserting(this, p, v) ==
  LET i == xy_index(this, p.x, p.y) IN
  IF i.kind = "ok" /\ i.val < Len(this.cells_)
    THEN [this EXCEPT !.cells_ = SubSeq(this.cells_, 1, i.val) \o <<v>> \o
                                   SubSeq(this.cells_, i.val + 1, Len(this.cells_))]
    ELSE this
operator_index_write(this, p, v) ==
  LET i == xy_index(this, p.x, p.y) IN
  IF i.kind = "ok" /\ i.val < Len(this.cells_)
    THEN [this EXCEPT !.cells_[i.val + 1] = v]
    ELSE this

\* operator[](p) = v: what the caller sees.
operator_index_write_result(this, p) ==
  LET i == xy_index(this, p.x, p.y) IN
  IF i.kind # "ok" THEN i
  ELSE IF i.val < Len(this.cells_) THEN Return(0)
  ELSE Undefined(0)

\* -------------------------------------------------------------------- Rows
RowsEndNotLarger == "Row end must be larger than begin"
RowTooLarge == "row index must be less than grid y_count_"
RowCountTooLarge == "row index + count must be less than grid y_count_"

\* What a call that constructs an object gives: the outcome and, unless it
\* threw, the object.
NoRows == [live |-> FALSE, begin_ |-> 0, end_ |-> 0]
Constructed(obj) == [obj |-> obj, ret |-> Return(0)]
Failed(k, m, none) == [obj |-> none, ret |-> Throw(k, m)]

\* Rows::Rows(begin, end).
Rows_allows_empty(begin, end) ==
  IF end < begin
    THEN Failed("out_of_range", RowsEndNotLarger, NoRows)
    ELSE Constructed([live |-> TRUE, begin_ |-> begin, end_ |-> end])
Rows(begin, end) ==
  IF end <= begin
    THEN Failed("out_of_range", RowsEndNotLarger, NoRows)
    ELSE Constructed([live |-> TRUE, begin_ |-> begin, end_ |-> end])

\* Rows::count(): end_ - begin_ in size_t arithmetic.
Rows_count(r) == (r.end_ - r.begin_) % SizeMod

\* RowIterator(row), Rows::begin(), Rows::end().
NoRowIterator == [live |-> FALSE, row_ |-> 0]
RowIterator(r) == [live |-> TRUE, row_ |-> r]
Rows_begin(r) == RowIterator(r.begin_)
Rows_end(r) == RowIterator(r.end_)
\* RowIterator::operator++: row_++.
RowIterator_inc(it) == [it EXCEPT !.row_ = (it.row_ + 1) % SizeMod]
\* RowIterator::operator*.
RowIterator_deref(it) == it.row_

\* Grid::rows(row, count).
rows_range_exclusive(this, start, n) ==
  IF start >= this.y_count_
    THEN Failed("out_of_range", RowTooLarge, NoRows)
  ELSE IF (start + n) % SizeMod >= this.y_count_
    THEN Failed("out_of_range", RowCountTooLarge, NoRows)
  ELSE Rows(start, (start + n) % SizeMod)
rows_range(this, start, n) ==
  IF start >= this.y_count_
    THEN Failed("out_of_range", RowTooLarge, NoRows)
  ELSE IF (start + n) % SizeMod > this.y_count_
    THEN Failed("out_of_range", RowCountTooLarge, NoRows)
  ELSE Rows(start, (start + n) % SizeMod)

\* Grid::rows(): rows(0, y_count_).
rows_without_last(this) == rows_range(this, 0, (this.y_count_ - 1) % SizeMod)
rows(this) == rows_range(this, 0, this.y_count_)

\* ---------------------------------------------------------- GridRectPoints
XCountZero == "x_count must be larger than zero"
YCountZero == "y_count must be larger than zero"

NoIterator ==
  [x_count_ |-> 0, live |-> FALSE, current_ |-> Point(0, 0), start_x_ |-> 0]

\* GridRectPoints::Iterator::Iterator(begin, x_count).
Iterator(begin, x_count) ==
  IF x_count = 0
    THEN Failed("invalid_argument", XCountZero, NoIterator)
    ELSE Constructed([x_count_ |-> x_count, live |-> TRUE, current_ |-> begin,
                      start_x_ |-> begin.x])

\* GridRectPoints::Iterator::Iterator(begin): the sentinel, x_count_ zero.
IteratorAt(begin) ==
  [x_count_ |-> 0, live |-> TRUE, current_ |-> begin, start_x_ |-> begin.x]

\* Iterator::operator*.
Iterator_deref(it) == it.current_

\* Iterator::operator++: the int current_.x - start_x_ + 1 is converted to
\* size_t for the comparison with x_count_.
Iterator_inc_wraps_late(it) ==
  IF ToSize(it.current_.x - it.start_x_ + 1) > it.x_count_
    THEN [it EXCEPT !.current_ = Point(it.start_x_, it.current_.y + 1)]
    ELSE [it EXCEPT !.current_ = Point(it.current_.x + 1, it.current_.y)]
Iterator_inc(it) ==
  IF ToSize(it.current_.x - it.start_x_ + 1) >= it.x_count_
    THEN [it EXCEPT !.current_ = Point(it.start_x_, it.current_.y + 1)]
    ELSE [it EXCEPT !.current_ = Point(it.current_.x + 1, it.current_.y)]

\* operator==(Iterator, Iterator): the positions alone are compared.
Iterator_eq(a, b) == a.current_ = b.current_

NoRect ==
  [x_count_ |-> 0, y_count_ |-> 0, live |-> FALSE, begin_ |-> Point(0, 0)]

\* GridRectPoints::GridRectPoints(begin, x_count, y_count).
GridRectPoints_unchecked_y_count(begin, x_count, y_count) ==
  IF x_count = 0 THEN Failed("invalid_argument", XCountZero, NoRect)
  ELSE Constructed([x_count_ |-> x_count, y_count_ |-> y_count, live |-> TRUE,
                    begin_ |-> begin])
GridRectPoints(begin, x_count, y_count) ==
  IF x_count = 0 THEN Failed("invalid_argument", XCountZero, NoRect)
  ELSE IF y_count = 0 THEN Failed("invalid_argument", YCountZero, NoRect)
  ELSE Constructed([x_count_ |-> x_count, y_count_ |-> y_count, live |-> TRUE,
                    begin_ |-> begin])

\* GridRectPoints::begin().
GridRectPoints_begin(r) == Iterator(r.begin_, r.x_count_).obj

\* GridRectPoints::end(): begin_.y + y_count_ is computed in size_t and narrowed
\* to int by Point's constructor.
GridRectPoints_end_on_last_row(r) ==
  IteratorAt(Point(r.begin_.x,
                   ToInt((ToSize(r.begin_.y) + r.y_count_ - 1) % SizeMod)))
GridRectPoints_end(r) ==
  IteratorAt(Point(r.begin_.x, ToInt((ToSize(r.begin_.y) + r.y_count_) % SizeMod)))

\* Grid::row(row): Point(0, row) narrows the size_t row to int.
row_swapped_origin(this, r) ==
  IF r >= this.y_count_
    THEN Failed("out_of_range", RowTooLarge, NoRect)
    ELSE GridRectPoints(Point(ToInt(r), 0), this.x_count_, 1)
row(this, r) ==
  IF r >= this.y_count_
    THEN Failed("out_of_range", RowTooLarge, NoRect)
    ELSE GridRectPoints(Point(0, ToInt(r)), this.x_count_, 1)

\* Grid::row(RowIterator itr): row(*itr).
row_itr(this, it) == row(this, RowIterator_deref(it))

\* Grid(Grid&& t) = default: each member is move-constructed from t's. The
\* size_t members are copied and keep their values in t; the moved-from vector
\* is empty.
Grid_move_construct(t) ==
  LET made == [x_count_ |-> t.x_count_,
               y_count_ |-> t.y_count_,
               cells_   |-> t.cells_]
  IN  [obj |-> made, src |-> [t EXCEPT !.cells_ = <<>>]]

\* Grid& operator=(Grid&& other) = default: each member is move-assigned from
\* other's. With std::allocator the vector takes other's storage and leaves it
\* empty.
Grid_move_assign(this, other) ==
  [obj |-> [this EXCEPT !.x_count_ = other.x_count_,
                        !.y_count_ = other.y_count_,
                        !.cells_   = other.cells_],
   src |-> [other EXCEPT !.cells_ = <<>>]]

\* Grid::begin(), Grid::end() and their const forms: iterators of cells_, a
\* position in the vector each.
NoCellIterator == [live |-> FALSE, pos |-> 0]
Grid_begin(this) == [live |-> TRUE, pos |-> 0]
Grid_end(this) == [live |-> TRUE, pos |-> Len(this.cells_)]
\* std::vector<T>::iterator: *it, ++it and *it = v.
CellIterator_deref(this, it) == this.cells_[it.pos + 1]
CellIterator_inc(it) == [it EXCEPT !.pos = it.pos + 1]
CellIterator_assign(this, it, v) == [this EXCEPT !.cells_[it.pos + 1] = v]

\* ------------------------------------------------ Point, TVec2 and TVec3
\* The three value types: Point and TVec2<int> hold x and y, TVec3<int> holds
\* x, y and z. A value is a record of its components.
VecTypes == {"Point", "TVec2", "TVec3"}
TVec2(x, y) == [x |-> x, y |-> y]
TVec3(x, y, z) == [x |-> x, y |-> y, z |-> z]

\* The component a successful operator[] returns a reference to.
ComponentRef(c) == [kind |-> "ok", comp |-> c]

\* Point::operator[](size_type) and its const form.
Point_operator_index_no_default(component_index) ==
  CASE component_index = 0 -> ComponentRef("x")
    [] OTHER -> ComponentRef("y")

Point_operator_index(component_index) ==
  CASE component_index = 0 -> ComponentRef("x")
    [] component_index = 1 -> ComponentRef("y")
    [] OTHER -> Throw("out_of_range", "component_index")

\* TVec2::operator[](size_type) and its const form.
TVec2_operator_index(component_index) ==
  CASE component_index = 0 -> ComponentRef("x")
    [] component_index = 1 -> ComponentRef("y")
    [] OTHER -> Throw("out_of_range", "component_index")

\* TVec3::operator[](size_type) and its const form.
TVec3_operator_index(component_index) ==
  CASE component_index = 0 -> ComponentRef("x")
    [] component_index = 1 -> ComponentRef("y")
    [] component_index = 2 -> ComponentRef("z")
    [] OTHER -> Throw("out_of_range", "component_index")

\* v[i] on a value of type ty.
operator_index(ty, component_index) ==
  CASE ty = "Point" -> Point_operator_index(component_index)
    [] ty = "TVec2" -> TVec2_operator_index(component_index)
    [] ty = "TVec3" -> TVec3_operator_index(component_index)

\* const auto c = v[i];
component_get(ty, this, component_index) ==
  LET r == operator_index(ty, component_index)
  IN  IF r.kind = "ok" THEN Return(this[r.comp]) ELSE r

\* v[i] = c; the assignment happens only if operator[] returned.
component_set(ty, this, component_index, c) ==
  LET r == operator_index(ty, component_index)
  IN  IF r.kind = "ok"
        THEN [obj |-> [this EXCEPT ![r.comp] = c], ret |-> Return(0)]
        ELSE [obj |-> this, ret |-> r]

\* The int values components are drawn from: both ends of the range and the
\* values around zero.
IntSamples == {IntMin, -1, 0, 1, IntMax}

\* The values an int expression may leave whose exact result is e: e itself
\* if int can hold it; otherwise the behaviour is undefined, and the value
\* observed is the wrapped one or any other int.
IntResult(e) ==
  IF e \in IntMin .. IntMax THEN {e} ELSE {ToInt(e)} \cup IntSamples

\* Whether an expression with these exact component results is defined.
Outcome(exacts) ==
  IF exacts \subseteq IntMin .. IntMax THEN Return(0) ELSE Undefined(0)

\* std::abs(int), exact.
std_abs(a) == IF a < 0 THEN -a ELSE a

\* Point operator+(Point lhs, const Point& rhs), through operator+=.
Point_plus(lhs, rhs) ==
  {[obj |-> Point(x, y), ret |-> Outcome({lhs.x + rhs.x, lhs.y + rhs.y})] :
     x \in IntResult(lhs.x + rhs.x), y \in IntResult(lhs.y + rhs.y)}

\* Point operator-(Point lhs, const Point& rhs), through operator-=.
Point_minus_adds_y(lhs, rhs) ==
  {[obj |-> Point(x, y), ret |-> Outcome({lhs.x - rhs.x, lhs.y + rhs.y})] :
     x \in IntResult(lhs.x - rhs.x), y \in IntResult(lhs.y + rhs.y)}

Point_minus(lhs, rhs) ==
  {[obj |-> Point(x, y), ret |-> Outcome({lhs.x - rhs.x, lhs.y - rhs.y})] :
     x \in IntResult(lhs.x - rhs.x), y \in IntResult(lhs.y - rhs.y)}

\* Point operator-(Point lhs).
Point_negate(lhs) ==
  {[obj |-> Point(x, y), ret |-> Outcome({-lhs.x, -lhs.y})] :
     x \in IntResult(-lhs.x), y \in IntResult(-lhs.y)}

\* Point abs(const Point& p).
Point_abs_of_x_only(p) ==
  {[obj |-> Point(x, y), ret |-> Outcome({std_abs(p.x), p.y})] :
     x \in IntResult(std_abs(p.x)), y \in IntResult(p.y)}

Point_abs(p) ==
  {[obj |-> Point(x, y), ret |-> Outcome({std_abs(p.x), std_abs(p.y)})] :
     x \in IntResult(std_abs(p.x)), y \in IntResult(std_abs(p.y))}

\* TVec2 operator+(TVec2 lhs, const TVec2& rhs), through operator+=.
TVec2_plus(lhs, rhs) ==
  {[obj |-> TVec2(x, y), ret |-> Outcome({lhs.x + rhs.x, lhs.y + rhs.y})] :
     x \in IntResult(lhs.x + rhs.x), y \in IntResult(lhs.y + rhs.y)}

\* TVec2 operator-(TVec2 lhs, const TVec2& rhs), through operator-=.
TVec2_minus(lhs, rhs) ==
  {[obj |-> TVec2(x, y), ret |-> Outcome({lhs.x - rhs.x, lhs.y - rhs.y})] :
     x \in IntResult(lhs.x - rhs.x), y \in IntResult(lhs.y - rhs.y)}

\* TVec2 operator-(TVec2 lhs).
TVec2_negate(lhs) ==
  {[obj |-> TVec2(x, y), ret |-> Outcome({-lhs.x, -lhs.y})] :
     x \in IntResult(-lhs.x), y \in IntResult(-lhs.y)}

\* TVec2<T> abs(const TVec2<T>& v).
TVec2_abs(v) ==
  {[obj |-> TVec2(x, y), ret |-> Outcome({std_abs(v.x), std_abs(v.y)})] :
     x \in IntResult(std_abs(v.x)), y \in IntResult(std_abs(v.y))}

\* TVec3 operator+(TVec3 lhs, const TVec3& rhs), through operator+=.
TVec3_plus(lhs, rhs) ==
  {[obj |-> TVec3(x, y, z),
    ret |-> Outcome({lhs.x + rhs.x, lhs.y + rhs.y, lhs.z + rhs.z})] :
     x \in IntResult(lhs.x + rhs.x), y \in IntResult(lhs.y + rhs.y),
     z \in IntResult(lhs.z + rhs.z)}

\* TVec3 operator-(TVec3 lhs, const TVec3& rhs), through operator-=.
TVec3_minus(lhs, rhs) ==
  {[obj |-> TVec3(x, y, z),
    ret |-> Outcome({lhs.x - rhs.x, lhs.y - rhs.y, lhs.z - rhs.z})] :
     x \in IntResult(lhs.x - rhs.x), y \in IntResult(lhs.y - rhs.y),
     z \in IntResult(lhs.z - rhs.z)}

\* TVec3 operator-(TVec3 lhs).
TVec3_negate(lhs) ==
  {[obj |-> TVec3(x, y, z), ret |-> Outcome({-lhs.x, -lhs.y, -lhs.z})] :
     x \in IntResult(-lhs.x), y \in IntResult(-lhs.y),
     z \in IntResult(-lhs.z)}

\* TVec3<T> abs(const TVec3<T>& v).
TVec3_abs(v) ==
  {[obj |-> TVec3(x, y, z),
    ret |-> Outcome({std_abs(v.x), std_abs(v.y), std_abs(v.z)})] :
     x \in IntResult(std_abs(v.x)), y \in IntResult(std_abs(v.y)),
     z \in IntResult(std_abs(v.z))}

\* int division and remainder, exact: the quotient is truncated toward zero
\* and the remainder is what is left, for a divisor other than zero.
TruncDiv(a, b) ==
  LET q == std_abs(a) \div std_abs(b)
  IN  IF (a < 0) = (b < 0) THEN q ELSE -q
TruncRem(a, b) == a - b * TruncDiv(a, b)

\* The values a / b and a % b may leave in int. Both are undefined for a zero
\* divisor and where the quotient is not an int.
IntQuotient(a, b) ==
  IF b = 0 THEN IntSamples ELSE IntResult(TruncDiv(a, b))
IntRemainder(a, b) ==
  IF b = 0 THEN IntSamples
  ELSE IF TruncDiv(a, b) \in IntMin .. IntMax THEN {TruncRem(a, b)}
  ELSE {0} \cup IntSamples
\* Whether x / rhs (and x % rhs) is defined for each of these x.
DivOutcome(xs, rhs) ==
  IF rhs = 0 THEN Undefined(0) ELSE Outcome({TruncDiv(x, rhs) : x \in xs})

\* Point operator*(Point lhs, const value_type rhs), through operator*=.
Point_times_x_only(lhs, rhs) ==
  {[obj |-> Point(x, y), ret |-> Outcome({lhs.x * rhs, lhs.y})] :
     x \in IntResult(lhs.x * rhs), y \in IntResult(lhs.y)}

Point_times(lhs, rhs) ==
  {[obj |-> Point(x, y), ret |-> Outcome({lhs.x * rhs, lhs.y * rhs})] :
     x \in IntResult(lhs.x * rhs), y \in IntResult(lhs.y * rhs)}

\* Point operator/(Point lhs, const value_type rhs), through operator/=.
Point_divide_floored(lhs, rhs) ==
  {[obj |-> Point(x, y), ret |-> DivOutcome({lhs.x, lhs.y}, rhs)] :
     x \in IF rhs = 0 THEN IntSamples ELSE IntResult(lhs.x \div rhs),
     y \in IF rhs = 0 THEN IntSamples ELSE IntResult(lhs.y \div rhs)}

Point_divide(lhs, rhs) ==
  {[obj |-> Point(x, y), ret |-> DivOutcome({lhs.x, lhs.y}, rhs)] :
     x \in IntQuotient(lhs.x, rhs), y \in IntQuotient(lhs.y, rhs)}

\* Point operator%(Point lhs, const value_type rhs), through operator%=.
Point_modulo(lhs, rhs) ==
  {[obj |-> Point(x, y), ret |-> DivOutcome({lhs.x, lhs.y}, rhs)] :
     x \in IntRemainder(lhs.x, rhs), y \in IntRemainder(lhs.y, rhs)}

\* TVec2 operator*, operator/ and operator% with a scalar, through the
\* compound assignments, for T = int.
TVec2_times(lhs, rhs) ==
  {[obj |-> TVec2(x, y), ret |-> Outcome({lhs.x * rhs, lhs.y * rhs})] :
     x \in IntResult(lhs.x * rhs), y \in IntResult(lhs.y * rhs)}
TVec2_divide(lhs, rhs) ==
  {[obj |-> TVec2(x, y), ret |-> DivOutcome({lhs.x, lhs.y}, rhs)] :
     x \in IntQuotient(lhs.x, rhs), y \in IntQuotient(lhs.y, rhs)}
TVec2_modulo(lhs, rhs) ==
  {[obj |-> TVec2(x, y), ret |-> DivOutcome({lhs.x, lhs.y}, rhs)] :
     x \in IntRemainder(lhs.x, rhs), y \in IntRemainder(lhs.y, rhs)}

\* TVec3 operator*, operator/ and operator% with a scalar, through the
\* compound assignments, for T = int.
TVec3_times(lhs, rhs) ==
  {[obj |-> TVec3(x, y, z),
    ret |-> Outcome({lhs.x * rhs, lhs.y * rhs, lhs.z * rhs})] :
     x \in IntResult(lhs.x * rhs), y \in IntResult(lhs.y * rhs),
     z \in IntResult(lhs.z * rhs)}
TVec3_divide(lhs, rhs) ==
  {[obj |-> TVec3(x, y, z), ret |-> DivOutcome({lhs.x, lhs.y, lhs.z}, rhs)] :
     x \in IntQuotient(lhs.x, rhs), y \in IntQuotient(lhs.y, rhs),
     z \in IntQuotient(lhs.z, rhs)}
TVec3_modulo(lhs, rhs) ==
  {[obj |-> TVec3(x, y, z), ret |-> DivOutcome({lhs.x, lhs.y, lhs.z}, rhs)] :
     x \in IntRemainder(lhs.x, rhs), y \in IntRemainder(lhs.y, rhs),
     z \in IntRemainder(lhs.z, rhs)}

\* a * r, a / r and a % r on values of type ty.
times(ty, a, r) ==
  CASE ty = "Point" -> Point_times(a, r)
    [] ty = "TVec2" -> TVec2_times(a, r)
    [] ty = "TVec3" -> TVec3_times(a, r)
divide(ty, a, r) ==
  CASE ty = "Point" -> Point_divide(a, r)
    [] ty = "TVec2" -> TVec2_divide(a, r)
    [] ty = "TVec3" -> TVec3_divide(a, r)
modulo(ty, a, r) ==
  CASE ty = "Point" -> Point_modulo(a, r)
    [] ty = "TVec2" -> TVec2_modulo(a, r)
    [] ty = "TVec3" -> TVec3_modulo(a, r)

\* a + b, a - b, -a and abs(a) on values of type ty.
plus(ty, a, b) ==
  CASE ty = "Point" -> Point_plus(a, b)
    [] ty = "TVec2" -> TVec2_plus(a, b)
    [] ty = "TVec3" -> TVec3_plus(a, b)
minus(ty, a, b) ==
  CASE ty = "Point" -> Point_minus(a, b)
    [] ty = "TVec2" -> TVec2_minus(a, b)
    [] ty = "TVec3" -> TVec3_minus(a, b)
negate(ty, a) ==
  CASE ty = "Point" -> Point_negate(a)
    [] ty = "TVec2" -> TVec2_negate(a)
    [] ty = "TVec3" -> TVec3_negate(a)
abs(ty, a) ==
  CASE ty = "Point" -> Point_abs(a)
    [] ty = "TVec2" -> TVec2_abs(a)
    [] ty = "TVec3" -> TVec3_abs(a)

\* The outcomes of an expression whose operand r was computed first and whose
\* own outcomes, given r's value, are rs: undefined if either step was.
After(r, rs) ==
  {[obj |-> q.obj, ret |-> IF r.ret.kind = "ub" THEN r.ret ELSE q.ret] :
     q \in rs}

\* a + b - b
plus_minus(ty, a, b) ==
  UNION {After(r, minus(ty, r.obj, b)) : r \in plus(ty, a, b)}

\* abs(-a)
abs_negate(ty, a) ==
  UNION {After(r, abs(ty, r.obj)) : r \in negate(ty, a)}

\* The values of each type over the sampled components.
Vectors(ty) ==
  IF ty = "TVec3"
    THEN {TVec3(x, y, z) : x \in IntSamples, y \in IntSamples, z \in IntSamples}
    ELSE {TVec2(x, y) : x \in IntSamples, y \in IntSamples}

\* The size_t indices callers pass to operator[].
ComponentIndices == {0, 1, 2, 3, SizeMax}

\* --------------------------------------------- products and distances
\* TVec2<T> and TVec3<T> are instantiated with int (IVec2, IVec3: the types
\* "TVec2" and "TVec3" above) and with float (Vec2, Vec3).
FloatTypes == {"Vec2", "Vec3"}
NumType(ty) == IF ty \in FloatTypes THEN "float" ELSE "int"
Is3(ty) == ty \in {"TVec3", "Vec3"}

\* float keeps this many significant bits (scaled down from 24); values are
\* whole numbers.
FloatBits == 3

\* The spacing of the floats around magnitude n.
RECURSIVE FloatUlp(_, _)
FloatUlp(n, u) == IF n < (2 ^ FloatBits) * u THEN u ELSE FloatUlp(n, 2 * u)

\* The float nearest to the exact result e, ties to the even significand.
FRound(e) ==
  LET n == IF e < 0 THEN -e ELSE e
      u == FloatUlp(n, 1)
      q == n \div u
      r == n % u
      m == IF 2 * r > u \/ (2 * r = u /\ q % 2 = 1) THEN q + 1 ELSE q
  IN  IF e < 0 THEN -(m * u) ELSE m * u

\* The values an arithmetic operation on T may leave whose exact result is e.
NumResult(T, e) == IF T = "float" THEN {FRound(e)} ELSE IntResult(e)

\* a * b + c * d and a * b - c * d, each operation in T.
SumOfProducts(T, a, b, c, d) ==
  UNION {NumResult(T, p + q) :
           p \in NumResult(T, a * b), q \in NumResult(T, c * d)}
DifferenceOfProducts(T, a, b, c, d) ==
  UNION {NumResult(T, p - q) :
           p \in NumResult(T, a * b), q \in NumResult(T, c * d)}

\* TVec2::dot(other): x * other.x + y * other.y
TVec2_dot_of_x_only(T, this, other) ==
  SumOfProducts(T, this.x, other.x, this.y, this.y)

TVec2_dot(T, this, other) ==
  SumOfProducts(T, this.x, other.x, this.y, other.y)

\* TVec2::length_squared(): x * x + y * y
TVec2_length_squared(T, this) ==
  SumOfProducts(T, this.x, this.x, this.y, this.y)

\* TVec3::dot(other): x * other.x + y * other.y + z * other.z
TVec3_dot(T, this, other) ==
  UNION {NumResult(T, s + r) :
           s \in SumOfProducts(T, this.x, other.x, this.y, other.y),
           r \in NumResult(T, this.z * other.z)}

\* TVec3::length_squared(): x * x + y * y + z * z
TVec3_length_squared(T, this) ==
  UNION {NumResult(T, s + r) :
           s \in SumOfProducts(T, this.x, this.x, this.y, this.y),
           r \in NumResult(T, this.z * this.z)}

\* TVec3::cross(other)
TVec3_cross_y_reversed(T, this, other) ==
  {TVec3(x, y, z) :
     x \in DifferenceOfProducts(T, this.y, other.z, this.z, other.y),
     y \in DifferenceOfProducts(T, this.x, other.z, this.z, other.x),
     z \in DifferenceOfProducts(T, this.x, other.y, this.y, other.x)}

TVec3_cross(T, this, other) ==
  {TVec3(x, y, z) :
     x \in DifferenceOfProducts(T, this.y, other.z, this.z, other.y),
     y \in DifferenceOfProducts(T, this.z, other.x, this.x, other.z),
     z \in DifferenceOfProducts(T, this.x, other.y, this.y, other.x)}

\* v.dot(w) and v.length_squared() on values of type ty.
dot(ty, a, b) ==
  IF Is3(ty) THEN TVec3_dot(NumType(ty), a, b)
             ELSE TVec2_dot(NumType(ty), a, b)
length_squared(ty, a) ==
  IF Is3(ty) THEN TVec3_length_squared(NumType(ty), a)
             ELSE TVec2_length_squared(NumType(ty), a)

\* lhs - rhs in the component type of ty: operator-= subtracts component by
\* component.
difference(ty, lhs, rhs) ==
  IF NumType(ty) = "float"
    THEN {[n \in DOMAIN lhs |-> FRound(lhs[n] - rhs[n])]}
    ELSE {r.obj : r \in minus(ty, lhs, rhs)}

\* (b.x - a.x) * (b.x - a.x), each operation in T.
SquaredDifference(T, a, b) ==
  UNION {NumResult(T, d * e) :
           d \in NumResult(T, b - a), e \in NumResult(T, b - a)}

\* distance_squared(const TVec2<T>& a, const TVec2<T>& b)
TVec2_distance_squared_from_origin(T, a, b) ==
  UNION {NumResult(T, p + q) :
           p \in SquaredDifference(T, 0, b.x),
           q \in SquaredDifference(T, 0, b.y)}

TVec2_distance_squared(T, a, b) ==
  UNION {NumResult(T, p + q) :
           p \in SquaredDifference(T, a.x, b.x),
           q \in SquaredDifference(T, a.y, b.y)}

\* distance_squared(const TVec3<T>& a, const TVec3<T>& b)
TVec3_distance_squared(T, a, b) ==
  UNION {NumResult(T, s + r) :
           s \in TVec2_distance_squared(T, a, b),
           r \in SquaredDifference(T, a.z, b.z)}

distance_squared(ty, a, b) ==
  IF Is3(ty) THEN TVec3_distance_squared(NumType(ty), a, b)
             ELSE TVec2_distance_squared(NumType(ty), a, b)

\* static_cast<U>(std::sqrt(e)) for U = T and e >= 0: the square root in
\* double, truncated for int, rounded to the nearest float otherwise.
std_sqrt(T, e) ==
  IF T = "float"
    THEN FRound(CHOOSE r \in 0 .. e :
                  /\ 4 * e < (2 * r + 1) * (2 * r + 1)
                  /\ r = 0 \/ (2 * r - 1) * (2 * r - 1) < 4 * e)
    ELSE CHOOSE r \in 0 .. e : r * r <= e /\ e < (r + 1) * (r + 1)

\* distance(a, b), for TVec2 and for TVec3
distance(ty, a, b) ==
  {std_sqrt(NumType(ty), e) : e \in distance_squared(ty, a, b)}

\* TVec2::length(), TVec3::length(): the square root of length_squared(), in
\* the component type.
length(ty, a) == {std_sqrt(NumType(ty), e) : e \in length_squared(ty, a)}

\* Vec2.length and Vec3.length on the host: self.length().
host_length(ty, self) == length(ty, self)
\* Vec2.length_squared and Vec3.length_squared on the host: the bound lambda
\* returns self.length().
host_length_squared(ty, self) == length(ty, self)

\* Point.__floordiv__ on the host: the bound lambda returns lhs / rhs.
Point_floordiv_floored(lhs, rhs) == Point_divide_floored(lhs, rhs)
Point_floordiv(lhs, rhs) == Point_divide(lhs, rhs)

\* ------------------------------------------------ host-side state tuples
\* Host values: an integer of any size, or a float held as a double. Every
\* C++ float is a double, so handing one to the host keeps its value.
PyInt(i) == [kind |-> "int", val |-> i]
PyFloat(d) == [kind |-> "float", val |-> d]

\* o.cast<int>(): a host integer that fits int; anything else is refused.
cast_int(o) ==
  IF o.kind = "int" /\ o.val \in IntMin .. IntMax
    THEN Return(o.val)
    ELSE Throw("cast_error", "")

\* o.cast<float>(): a host float or integer, narrowed to the nearest float.
cast_float(o) == Return(FRound(o.val))

\* What a failed factory leaves: no object.
NoValue == <<>>

\* Point pickle: __getstate__ and __setstate__.
Point_getstate(p) == <<PyInt(p.x), PyInt(p.y)>>

Point_setstate_swapped(t) ==
  IF Len(t) # 2
    THEN Failed("runtime_error", "invalid state", NoValue)
    ELSE LET x == cast_int(t[2])
             y == cast_int(t[1])
         IN  IF x.kind # "ok" THEN [obj |-> NoValue, ret |-> x]
             ELSE IF y.kind # "ok" THEN [obj |-> NoValue, ret |-> y]
             ELSE Constructed(Point(x.val, y.val))

Point_setstate(t) ==
  IF Len(t) # 2
    THEN Failed("runtime_error", "invalid state", NoValue)
    ELSE LET x == cast_int(t[1])
             y == cast_int(t[2])
         IN  IF x.kind # "ok" THEN [obj |-> NoValue, ret |-> x]
             ELSE IF y.kind # "ok" THEN [obj |-> NoValue, ret |-> y]
             ELSE Constructed(Point(x.val, y.val))

\* Vec2 pickle: __getstate__ and __setstate__.
Vec2_getstate(v) == <<PyFloat(v.x), PyFloat(v.y)>>
Vec2_setstate(t) ==
  IF Len(t) # 2
    THEN Failed("runtime_error", "invalid state", NoValue)
    ELSE Constructed(TVec2(cast_float(t[1]).val, cast_float(t[2]).val))

\* Vec3 pickle: __getstate__ and __setstate__.
Vec3_getstate(v) == <<PyFloat(v.x), PyFloat(v.y), PyFloat(v.z)>>
Vec3_setstate(t) ==
  IF Len(t) # 3
    THEN Failed("runtime_error", "invalid state", NoValue)
    ELSE Constructed(TVec3(cast_float(t[1]).val, cast_float(t[2]).val,
                           cast_float(t[3]).val))

\* The host-exposed types, and their state functions.
HostTypes == {"Point", "Vec2", "Vec3"}
getstate(ty, v) ==
  CASE ty = "Point" -> Point_getstate(v)
    [] ty = "Vec2" -> Vec2_getstate(v)
    [] ty = "Vec3" -> Vec3_getstate(v)
setstate(ty, t) ==
  CASE ty = "Point" -> Point_setstate(t)
    [] ty = "Vec2" -> Vec2_setstate(t)
    [] ty = "Vec3" -> Vec3_setstate(t)

\* Floats of both signs, some with a full significand.
FloatSamples == {-12, -3, 0, 1, 7}
\* The values of each host-exposed type over the sampled components.
HostVectors(ty) ==
  CASE ty = "Point" -> Vectors("Point")
    [] ty = "Vec2" -> {TVec2(x, y) : x \in FloatSamples, y \in FloatSamples}
    [] ty = "Vec3" -> {TVec3(x, y, z) : x \in FloatSamples, y \in FloatSamples,
                                        z \in FloatSamples}

\* The component values the products and distances are studied on: small
\* enough that no int result leaves the range, large enough that float
\* results are rounded.
ProductSamples == {-3, -1, 0, 1, 2}
ProductVectors(ty) ==
  IF Is3(ty)
    THEN {TVec3(x, y, z) : x \in ProductSamples, y \in ProductSamples,
                           z \in ProductSamples}
    ELSE {TVec2(x, y) : x \in ProductSamples, y \in ProductSamples}

\* ------------------------------------------- host-side Grid from a list
RowCountMismatch == "list row count must match grid y_count when constructing"
ColCountMismatch == "list col count must match grid x_count when constructing"

\* No Grid object: what a constructor that threw leaves behind.
NoGrid == [x_count_ |-> 0, y_count_ |-> 0, cells_ |-> <<>>]

\* The init callback of the list constructor, called for cell (x, y): a value
\* error when row y does not have x_count elements, else element x of row y.
ListInit(initial, x_count, x, y) ==
  LET rowList == initial[y + 1] IN
    IF Len(rowList) # x_count
      THEN Throw("value_error", ColCountMismatch)
      ELSE Return(rowList[x + 1])

\* The inner loop of Grid(x_count, y_count, init) with that callback: x from 0
\* to x_count - 1, left when the callback throws. built holds the cells so far.
RECURSIVE ListRow(_, _, _, _, _)
ListRow(initial, x_count, y, x, built) ==
  IF x < x_count
    THEN LET r == ListInit(initial, x_count, x, y) IN
           IF r.kind # "ok"
             THEN [obj |-> built.obj, ret |-> r]
             ELSE ListRow(initial, x_count, y, x + 1,
                          Constructed(Append(built.obj, r.val)))
    ELSE built

\* The outer loop: y from 0 to y_count - 1, left when the callback has thrown.
RECURSIVE ListRows(_, _, _, _, _)
ListRows(initial, x_count, y_count, y, built) ==
  IF y < y_count /\ built.ret.kind = "ok"
    THEN ListRows(initial, x_count, y_count, y + 1,
                  ListRow(initial, x_count, y, 0, built))
    ELSE built

\* Grid(x_count, y_count, initial) as the host calls it with a list of rows.
Grid_from_list(x_count, y_count, initial) ==
  IF Len(initial) # y_count
    THEN Failed("value_error", RowCountMismatch, NoGrid)
    ELSE LET built == ListRows(initial, x_count, y_count, 0, Constructed(<<>>))
             made == [x_count_ |-> x_count,
                      y_count_ |-> y_count,
                      cells_   |-> built.obj]
         IN IF built.ret.kind = "ok"
              THEN Constructed(made)
              ELSE Failed(built.ret.kind, built.ret.msg, NoGrid)

\* Grid::x_count(), Grid::y_count(), Grid::count().
x_count(this) == this.x_count_
y_count(this) == this.y_count_
count(this) == Len(this.cells_)

\* ------------------------------------------------------------------- state
VARIABLES
  g,        \* the Grid object: x_count_, y_count_, cells_
  call,     \* the last call made: op, and its arguments p, v (cell access) or
            \* a, b (the size_t arguments of the range calls)
  ret,      \* and its outcome
  writes,   \* number of successful writes so far
  lastWritten, \* history: per valid point, the last value written to it, or its
            \* construction-time value
  rowsObj,  \* the Rows object the last range call returned
  rowItr,   \* the RowIterator of the traversal under way
  rowOut,   \* the row indices the traversal has produced
  passes,   \* number of traversals started, on rowsObj or over all cells
  rectObj,  \* the GridRectPoints object the last region call returned
  ptItr,    \* the GridRectPoints::Iterator of the traversal under way
  ptOut,    \* the points the traversal has produced
  ctorCall, \* the constructor call that built g: op, and x_count (a),
            \* y_count (b), defaultValue (v); recorded by the specifications
            \* that follow one constructor
  ctorPc,   \* "loop" while Grid(x_count, y_count, init) runs, then "done"
  ctorX,    \* its loop variable x
  ctorY,    \* its loop variable y
  initCalls, \* history: the argument pairs <<x, y>> init was called with
  ctorList, \* the nested list the host's list constructor was given
  flatItr,  \* the iterator of the traversal of all cells under way
  flatOut,  \* the cell values that traversal has visited
  dst,      \* the grid that g was moved to, once moved is not "none"
  moved,    \* "none", or how g was moved from: "construct" or "assign"
  pre,      \* history: g as it was when it was moved from
  vty,      \* the type of the values vec and vecB: Point, TVec2 or TVec3
  vec,      \* a Point, TVec2 or TVec3 object
  vecB,     \* a second value of the same type
  vres      \* the value the last expression over vec and vecB produced, and
            \* whether its evaluation was defined

cellVars == <<g, writes, lastWritten>>
rowVars == <<rowsObj, rowItr, rowOut, passes>>
rectVars == <<rectObj, ptItr, ptOut>>
ctorVars == <<ctorCall, ctorPc, ctorX, ctorY, initCalls, ctorList>>
flatVars == <<flatItr, flatOut>>
moveVars == <<dst, moved, pre>>
vecVars == <<vty, vec, vecB, vres>>
extVars == <<flatVars, moveVars, vecVars>>
lateVars == <<ctorVars, extVars>>
vars == <<g, call, ret, writes, lastWritten, rowsObj, rowItr, rowOut, passes,
          rectObj, ptItr, ptOut, lateVars>>

NoCall == [v |-> 0, b |-> 0, p |-> Point(0, 0), a |-> 0, op |-> "none"]
CellCall(op, p, v) == [v |-> v, b |-> 0, p |-> p, a |-> 0, op |-> op]
SizeCall(op, a, b) == [v |-> 0, b |-> b, p |-> Point(0, 0), a |-> a, op |-> op]
CtorCall(op, a, b, v) ==
  [v |-> v, b |-> b, p |-> Point(0, 0), a |-> a, op |-> op]
VecCall(op, i, c) == [v |-> c, b |-> 0, p |-> Point(0, 0), a |-> i, op |-> op]

ValidPoints(xc, yc) == {Point(x, y) : x \in 0 .. xc - 1, y \in 0 .. yc - 1}

\* size_t arguments callers pass: up to one past the largest dimension, and the
\* largest size_t.
SizeArgs == (0 .. MaxDim + 1) \cup {SizeMax}
\* A traversal of rows is followed for at most this many elements.
MaxOut == MaxDim + 2

\* The regions callers ask for: origins around zero, negative coordinates
\* included, and the test's (4, 7); widths up to MaxDim, heights one more.
Origins == {Point(x, y) : x \in -1 .. 1, y \in -1 .. 1} \cup {Point(4, 7)}
Widths == 0 .. MaxDim
Heights == 0 .. MaxDim + 1
\* A traversal of points is followed for at most this many elements.
MaxPoints == MaxDim * (MaxDim + 1) + 1

\* No Point or vector value is under study.
NoVectors ==
  /\ vty = "Point"
  /\ vec = Point(0, 0)
  /\ vecB = Point(0, 0)
  /\ vres = Constructed(Point(0, 0))

\* No call has been made and no range, iterator or moved-to object exists.
Quiet ==
  /\ call = NoCall
  /\ ret = NoResult
  /\ writes = 0
  /\ rowsObj = NoRows
  /\ rowItr = NoRowIterator
  /\ rowOut = <<>>
  /\ passes = 0
  /\ rectObj = NoRect
  /\ ptItr = NoIterator
  /\ ptOut = <<>>
  /\ flatItr = NoCellIterator
  /\ flatOut = <<>>
  /\ dst = GridFill(0, 0, 0)
  /\ moved = "none"
  /\ pre = GridFill(0, 0, 0)

Fresh == Quiet /\ NoVectors

\* The constructor has returned; its loop variables are gone.
CtorReturned ==
  /\ ctorPc = "done"
  /\ ctorX = 0
  /\ ctorY = 0
  /\ initCalls = <<>>
  /\ ctorList = <<>>

\* The state after construction, by either constructor.
Init ==
  /\ \E xc \in Dims, yc \in Dims :
       \/ \E v \in Values :
            /\ g = GridFill(xc, yc, v)
            /\ lastWritten = [p \in ValidPoints(xc, yc) |-> v]
       \/ /\ g = GridInit(xc, yc)
          /\ lastWritten = [p \in ValidPoints(xc, yc) |-> init(p.x, p.y)]
  /\ ctorCall = NoCall
  /\ CtorReturned
  /\ Fresh

\* const auto c = grid[p];
CallRead(p) ==
  /\ call' = CellCall("read", p, 0)
  /\ ret' \in operator_index_read(g, p)
  /\ UNCHANGED <<lateVars, cellVars, rowVars, rectVars>>

\* grid[p] = v;
CallWrite(p, v) ==
  /\ writes < MaxWrites
  /\ call' = CellCall("write", p, v)
  /\ ret' = operator_index_write_result(g, p)
  /\ g' = operator_index_write(g, p, v)
  /\ writes' = IF ret'.kind = "ok" THEN writes + 1 ELSE writes
  /\ lastWritten' = IF ret'.kind = "ok"
                      THEN [lastWritten EXCEPT ![p] = v]
                      ELSE lastWritten
  /\ UNCHANGED <<lateVars, rowVars, rectVars>>

\* grid.contains_point(p);
CallContainsPoint(p) ==
  /\ call' = CellCall("contains_point", p, 0)
  /\ ret' = ReturnBool(contains_point(g, p))
  /\ UNCHANGED <<lateVars, cellVars, rowVars, rectVars>>

Next ==
  \/ \E p \in Points : CallRead(p)
  \/ \E p \in Points, v \in Values : CallWrite(p, v)
  \/ \E p \in Points : CallContainsPoint(p)

Spec == Init /\ [][Next]_vars

\* ------------------------------------------- Grid(x_count, y_count, init)
\* The state when the constructor's body is entered: the members initialized,
\* cells_ empty, the loops about to start.
InitCtor ==
  /\ \E xc \in Dims, yc \in Dims :
       /\ g = [x_count_ |-> xc, y_count_ |-> yc, cells_ |-> <<>>]
       /\ ctorCall = CtorCall("Grid_init", xc, yc, 0)
       /\ lastWritten = [p \in ValidPoints(xc, yc) |-> 0]
  /\ ctorPc = "loop"
  /\ ctorX = 0
  /\ ctorY = 0
  /\ initCalls = <<>>
  /\ ctorList = <<>>
  /\ Fresh

\* cells_.emplace_back(init(x, y)): init is called, then its value appended.
EmplaceInit(x, y) ==
  /\ initCalls' = Append(initCalls, <<x, y>>)
  /\ g' = [g EXCEPT !.cells_ = Append(g.cells_, init(x, y))]
  /\ lastWritten' = [lastWritten EXCEPT ![Point(x, y)] = init(x, y)]

\* One step of the constructor's loops: an iteration of the inner loop, the
\* end of the inner loop, or the end of the outer loop.
CtorStep_x_outer ==
  /\ ctorPc = "loop"
  /\ IF ctorX < g.x_count_
       THEN IF ctorY < g.y_count_
              THEN /\ EmplaceInit(ctorX, ctorY)
                   /\ ctorY' = ctorY + 1
                   /\ UNCHANGED <<ctorX, ctorPc>>
              ELSE /\ ctorY' = 0
                   /\ ctorX' = ctorX + 1
                   /\ UNCHANGED <<g, lastWritten, initCalls, ctorPc>>
       ELSE /\ ctorPc' = "done"
            /\ UNCHANGED <<g, lastWritten, initCalls, ctorX, ctorY>>
  /\ UNCHANGED <<call, ret, writes, rowVars, rectVars, ctorCall, ctorList,
                 extVars>>
CtorStep ==
  /\ ctorPc = "loop"
  /\ IF ctorY < g.y_count_
       THEN IF ctorX < g.x_count_
              THEN /\ EmplaceInit(ctorX, ctorY)
                   /\ ctorX' = ctorX + 1
                   /\ UNCHANGED <<ctorY, ctorPc>>
              ELSE /\ ctorX' = 0
                   /\ ctorY' = ctorY + 1
                   /\ UNCHANGED <<g, lastWritten, initCalls, ctorPc>>
       ELSE /\ ctorPc' = "done"
            /\ UNCHANGED <<g, lastWritten, initCalls, ctorX, ctorY>>
  /\ UNCHANGED <<call, ret, writes, rowVars, rectVars, ctorCall, ctorList,
                 extVars>>

\* The constructor runs to its end; the grid is read only after it returned.
NextCtor ==
  \/ CtorStep
  \/ \E p \in Points : ctorPc = "done" /\ CallRead(p)

SpecCtor == InitCtor /\ [][NextCtor]_vars

\* ----------------------------------- Grid(x_count, y_count, defaultValue)
\* The state after Grid(x_count, y_count, defaultValue), the call recorded.
InitFill ==
  /\ \E xc \in Dims, yc \in Dims, v \in Values :
       /\ g = GridFill(xc, yc, v)
       /\ ctorCall = CtorCall("Grid_fill", xc, yc, v)
       /\ lastWritten = [p \in ValidPoints(xc, yc) |-> v]
  /\ CtorReturned
  /\ Fresh

\* grid.x_count();  grid.y_count();  grid.count();
CallAccessor(op, n) ==
  /\ call' = SizeCall(op, 0, 0)
  /\ ret' = Return(n)
  /\ UNCHANGED <<lateVars, cellVars, rowVars, rectVars>>

\* The grid just constructed is asked its size and read.
NextFill ==
  \/ CallAccessor("x_count", x_count(g))
  \/ CallAccessor("y_count", y_count(g))
  \/ CallAccessor("count", count(g))
  \/ \E p \in Points : CallRead(p)
  \/ \E p \in Points : CallContainsPoint(p)

SpecFill == InitFill /\ [][NextFill]_vars

\* ------------------------------------------------- iteration over all cells
\* The point whose cell is the k-th of the storage, counting from zero.
PointOfCell(this, k) == Point(k % this.x_count_, k \div this.x_count_)

\* for (auto it = grid.begin(); ...   and the binding's __iter__
FlatBegin ==
  /\ passes < MaxPasses
  /\ flatItr' = Grid_begin(g)
  /\ flatOut' = <<>>
  /\ passes' = passes + 1
  /\ UNCHANGED <<ctorVars, moveVars, vecVars, cellVars, rectVars, call, ret,
                 rowsObj, rowItr, rowOut>>

\* ... it != grid.end(); ++it) out.push_back(*it);   and the binding's __next__
FlatStep ==
  /\ flatItr.live
  /\ flatItr # Grid_end(g)
  /\ flatOut' = Append(flatOut, CellIterator_deref(g, flatItr))
  /\ flatItr' = CellIterator_inc(flatItr)
  /\ UNCHANGED <<ctorVars, moveVars, vecVars, cellVars, rowVars, rectVars,
                 call, ret>>

\* *it = v;   through the iterator of the mutable begin()
FlatAssign(v) ==
  /\ flatItr.live
  /\ flatItr # Grid_end(g)
  /\ writes < MaxWrites
  /\ g' = CellIterator_assign(g, flatItr, v)
  /\ writes' = writes + 1
  /\ lastWritten' = [lastWritten EXCEPT ![PointOfCell(g, flatItr.pos)] = v]
  /\ UNCHANGED <<ctorVars, flatVars, moveVars, vecVars, rowVars, rectVars,
                 call, ret>>

\* len(grid): the binding's __len__
CallLen ==
  /\ call' = SizeCall("__len__", 0, 0)
  /\ ret' = Return(count(g))
  /\ UNCHANGED <<lateVars, cellVars, rowVars, rectVars>>

NextFlat ==
  \/ FlatBegin
  \/ FlatStep
  \/ \E v \in Values : FlatAssign(v)
  \/ CallLen

SpecFlat == Init /\ [][NextFlat]_vars

\* -------------------------------------------------------------------- moves
\* A move of g: the destination, what is left of g, and g as it was.
MoveCall(kind, c, r) ==
  /\ moved = "none"
  /\ call' = c
  /\ ret' = Return(0)
  /\ dst' = r.obj
  /\ g' = r.src
  /\ moved' = kind
  /\ pre' = g
  /\ UNCHANGED <<ctorVars, flatVars, vecVars, writes, lastWritten, rowVars,
                 rectVars>>

\* Grid<T> b(std::move(g));
MoveConstruct ==
  MoveCall("construct", SizeCall("move_construct", 0, 0), Grid_move_construct(g))

\* Grid<T> b(xc, yc, v);  b = std::move(g);
MoveAssign(xc, yc, v) ==
  MoveCall("assign", CtorCall("move_assign", xc, yc, v),
           Grid_move_assign(GridFill(xc, yc, v), g))

\* A grid is used, moved from once, and used again.
NextMove ==
  \/ MoveConstruct
  \/ \E xc \in Dims, yc \in Dims, v \in Values : MoveAssign(xc, yc, v)
  \/ \E p \in Points : CallRead(p)
  \/ \E p \in Points, v \in Values : CallWrite(p, v)
  \/ \E p \in Points : CallContainsPoint(p)
  \/ CallAccessor("count", count(g))

SpecMove == Init /\ [][NextMove]_vars

\* A range call: its outcome and the Rows object it returned, not yet traversed.
RangeCall(c, r) ==
  /\ call' = c
  /\ ret' = r.ret
  /\ rowsObj' = r.obj
  /\ rowItr' = NoRowIterator
  /\ rowOut' = <<>>
  /\ passes' = 0
  /\ UNCHANGED <<lateVars, cellVars, rectVars>>

\* auto r = grid.rows();
CallRows == RangeCall(SizeCall("rows", 0, 0), rows(g))

\* auto r = grid.rows(row, count);
CallRowsRange(start, n) ==
  RangeCall(SizeCall("rows_range", start, n), rows_range(g, start, n))

\* Grid<T>::Rows r(begin, end);
NewRows(begin, end) == RangeCall(SizeCall("Rows", begin, end), Rows(begin, end))

\* for (auto it = r.begin(); ...
RowsBegin ==
  /\ rowsObj.live
  /\ passes < MaxPasses
  /\ rowItr' = Rows_begin(rowsObj)
  /\ rowOut' = <<>>
  /\ passes' = passes + 1
  /\ UNCHANGED <<lateVars, cellVars, rectVars, call, ret, rowsObj>>

\* ... it != r.end(); ++it) out.push_back(*it);
RowsStep ==
  /\ rowItr.live
  /\ rowItr # Rows_end(rowsObj)
  /\ Len(rowOut) < MaxOut
  /\ rowOut' = Append(rowOut, RowIterator_deref(rowItr))
  /\ rowItr' = RowIterator_inc(rowItr)
  /\ UNCHANGED <<lateVars, cellVars, rectVars, call, ret, rowsObj, passes>>

NextRows ==
  \/ CallRows
  \/ \E start \in SizeArgs, n \in SizeArgs : CallRowsRange(start, n)
  \/ \E begin \in SizeArgs, end \in SizeArgs : NewRows(begin, end)
  \/ RowsBegin
  \/ RowsStep

SpecRows == Init /\ [][NextRows]_vars

\* A region call: its outcome and the GridRectPoints object it returned, not yet
\* traversed.
RegionCall(c, r) ==
  /\ call' = c
  /\ ret' = r.ret
  /\ rectObj' = r.obj
  /\ ptItr' = NoIterator
  /\ ptOut' = <<>>
  /\ UNCHANGED <<lateVars, cellVars, rowVars>>

\* const auto points = grid.row(r);   (call.b = 0: the size_type overload)
CallRow(r) == RegionCall(SizeCall("row", r, 0), row(g, r))

\* const auto points = grid.row(Grid<T>::RowIterator(r));   (call.b = 1: the
\* RowIterator overload)
CallRowItr(r) == RegionCall(SizeCall("row", r, 1), row_itr(g, RowIterator(r)))

\* GridRectPoints points(origin, w, h);
NewRect(origin, w, h) ==
  RegionCall([v |-> 0, b |-> h, p |-> origin, a |-> w, op |-> "GridRectPoints"],
             GridRectPoints(origin, w, h))

\* GridRectPoints::Iterator it(begin, w);   an iterator of no region
NewIterator(begin, w) ==
  /\ call' = [v |-> 0, b |-> 0, p |-> begin, a |-> w, op |-> "Iterator"]
  /\ ret' = Iterator(begin, w).ret
  /\ ptItr' = Iterator(begin, w).obj
  /\ rectObj' = NoRect
  /\ ptOut' = <<>>
  /\ UNCHANGED <<lateVars, cellVars, rowVars>>

\* for (auto it = points.begin(); ...
RectBegin ==
  /\ rectObj.live
  /\ ptItr' = GridRectPoints_begin(rectObj)
  /\ ptOut' = <<>>
  /\ UNCHANGED <<lateVars, cellVars, rowVars, call, ret, rectObj>>

\* ... it != points.end(); ++it) out.push_back(*it);
RectStep ==
  /\ rectObj.live
  /\ ptItr.live
  /\ ~Iterator_eq(ptItr, GridRectPoints_end(rectObj))
  /\ Len(ptOut) < MaxPoints
  /\ ptOut' = Append(ptOut, Iterator_deref(ptItr))
  /\ ptItr' = Iterator_inc(ptItr)
  /\ UNCHANGED <<lateVars, cellVars, rowVars, call, ret, rectObj>>

NextRect ==
  \/ \E r \in SizeArgs : CallRow(r)
  \/ \E r \in SizeArgs : CallRowItr(r)
  \/ \E origin \in Origins, w \in Widths, h \in Heights : NewRect(origin, w, h)
  \/ \E origin \in Origins, w \in Widths : NewIterator(origin, w)
  \/ RectBegin
  \/ RectStep

SpecRect == Init /\ [][NextRect]_vars

\* ------------------------------------------------------ a grid's lifetime
\* The points accessed: the first cell, and a point below the last row of every
\* grid.
LifetimePoints == {Point(0, 0), Point(0, MaxDim)}

\* Every kind of call the grid offers, in any order.
NextLifetime ==
  \/ \E p \in LifetimePoints : CallRead(p)
  \/ \E p \in LifetimePoints, v \in Values : CallWrite(p, v)
  \/ \E p \in LifetimePoints : CallContainsPoint(p)
  \/ CallRows
  \/ \E r \in {0, MaxDim} : CallRow(r)
  \/ FlatBegin
  \/ FlatStep

SpecLifetime == Init /\ [][NextLifetime]_vars


\* ------------------------------------------------------- cell access claims
\* p is a valid point of the grid, as the specification states it.
InRange(this, p) ==
  /\ 0 <= p.x /\ p.x < this.x_count_
  /\ 0 <= p.y /\ p.y < this.y_count_

XMessages == {XNegative, XTooLarge}
YMessages == {YNegative, YTooLarge}

\* C1: after construction by either constructor and any sequence of writes at
\* valid points, reading a valid point q returns the last value written to q, or
\* q's construction-time value if q was never written; a write to p changes no
\* other cell.
C1_ReadReturnsLastWrite ==
  /\ \A q \in ValidPoints(g.x_count_, g.y_count_) :
       operator_index_read(g, q) = {Return(lastWritten[q])}
  /\ (call.op = "read" /\ InRange(g, call.p)) => ret = Return(lastWritten[call.p])

\* A 2x2 grid built by the initializer constructor, written at (1,0) and at
\* (0,1), never written at (1,1), and then read at (0,1).
C1_Witness ==
  /\ g.x_count_ = 2 /\ g.y_count_ = 2
  /\ writes = 2
  /\ lastWritten[Point(1, 0)] = 1
  /\ lastWritten[Point(0, 1)] = 0
  /\ lastWritten[Point(1, 1)] = init(1, 1)
  /\ call.op = "read" /\ call.p = Point(0, 1)
  /\ ret = Return(0)

\* C2: for every point with x < 0, y < 0, x >= x_count or y >= y_count, both the
\* read grid[p] and the write grid[p] = v fail with an out-of-range error.
C2_OutOfRangeAccessThrows ==
  (call.op \in {"read", "write"} /\ ~InRange(g, call.p))
    => ret.kind = "out_of_range"

\* A write at x = x_count, y in range, on a grid with cells, that failed.
C2_Witness ==
  /\ call.op = "write"
  /\ g.x_count_ > 0
  /\ call.p.x = g.x_count_
  /\ 0 <= call.p.y /\ call.p.y < g.y_count_
  /\ ret.kind = "out_of_range"

\* C3: a write that fails because p is out of range leaves the grid exactly as
\* it was: every cell, x_count, y_count and count() are unchanged.
C3_FailedWriteChangesNothing ==
  [][(call'.op = "write" /\ ret'.kind = "out_of_range") => g' = g]_vars

\* A failed write at the first column past the end of a row that has a row
\* below it, on a grid that an earlier write has changed.
C3_Witness ==
  /\ call.op = "write"
  /\ ret.kind = "out_of_range"
  /\ writes >= 1
  /\ call.p.x = g.x_count_
  /\ call.p.y = 0
  /\ g.y_count_ >= 2

\* C4 as stated: whenever p.x is outside [0, x_count) the error is an x-axis
\* error, and whenever p.y is outside [0, y_count) while p.x is in range it is a
\* y-axis error.
C4_XAlwaysReportedFirst ==
  (call.op \in {"read", "write"} /\ ret.kind = "out_of_range") =>
    /\ (call.p.x < 0 \/ call.p.x >= g.x_count_) => ret.msg \in XMessages
    /\ (0 <= call.p.x /\ call.p.x < g.x_count_) => ret.msg \in YMessages

\* C4 amended: the axis the error names is always one that is out of range. An
\* out-of-range x is reported as an x-axis error unless x >= x_count and y < 0,
\* which is reported as the y-axis error "y must be a positive value"; with x in
\* range the error is a y-axis error.
C4_ErrorNamesViolatedAxis ==
  (call.op \in {"read", "write"} /\ ~InRange(g, call.p)) =>
    /\ ret.kind = "out_of_range"
    /\ ret.msg \in XMessages \cup YMessages
    /\ ret.msg \in XMessages <=>
         (call.p.x < 0 \/ (call.p.x >= g.x_count_ /\ call.p.y >= 0))
    /\ ret.msg \in XMessages => (call.p.x < 0 \/ call.p.x >= g.x_count_)
    /\ ret.msg \in YMessages => (call.p.y < 0 \/ call.p.y >= g.y_count_)
    /\ (call.p.x >= g.x_count_ /\ call.p.y < 0) => ret.msg = YNegative

\* Both axes out of range, x too large and y negative: the y-axis error.
C4_Witness ==
  /\ call.op = "read"
  /\ call.p.x >= g.x_count_
  /\ call.p.y < 0
  /\ ret = Throw("out_of_range", YNegative)

\* C5: contains_point(p) returns true exactly when 0 <= p.x < x_count and
\* 0 <= p.y < y_count, false otherwise, never fails and never modifies the grid.
C5_ContainsPointIsRangeTest ==
  /\ [](call.op = "contains_point" => ret = ReturnBool(InRange(g, call.p)))
  /\ [][call'.op = "contains_point" => g' = g]_vars

\* contains_point at the first column past the end of a non-empty row.
C5_Witness ==
  /\ call.op = "contains_point"
  /\ g.x_count_ >= 1 /\ g.y_count_ >= 1
  /\ call.p = Point(g.x_count_, 0)
  /\ ret = ReturnBool(FALSE)

\* ------------------------------------------------------------ range claims
\* The traversal under way has reached end().
RowsDone == rowItr.live /\ rowItr = Rows_end(rowsObj)

\* The traversal has produced start, start + 1, ... so far, at most n of them,
\* and exactly n once it has reached end().
ProducesRows(start, n) ==
  /\ Len(rowOut) <= n
  /\ \A i \in 1 .. Len(rowOut) : rowOut[i] = start + i - 1
  /\ RowsDone => Len(rowOut) = n

\* C6 as stated: rows(start, count) returns the rows start .. start + count - 1,
\* with Rows::count() == count, whenever start < y_count and
\* start + count <= y_count, and fails with an out-of-range error otherwise.
C6_RowsRangeAllowsEmpty ==
  call.op = "rows_range" =>
    IF call.a < g.y_count_ /\ call.a + call.b <= g.y_count_
      THEN /\ ret.kind = "ok"
           /\ rowsObj.live
           /\ Rows_count(rowsObj) = call.b
           /\ ProducesRows(call.a, call.b)
      ELSE ret.kind = "out_of_range"

\* C6 amended: rows(start, count) returns the rows start .. start + count - 1,
\* with Rows::count() == count, whenever start < y_count, count >= 1 and
\* start + count <= y_count; it fails with an out-of-range error whenever
\* start >= y_count, count == 0 or start + count > y_count.
C6_RowsRange ==
  call.op = "rows_range" =>
    IF call.a < g.y_count_ /\ call.b >= 1 /\ call.a + call.b <= g.y_count_
      THEN /\ ret.kind = "ok"
           /\ rowsObj = [live |-> TRUE, begin_ |-> call.a, end_ |-> call.a + call.b]
           /\ Rows_count(rowsObj) = call.b
           /\ ProducesRows(call.a, call.b)
      ELSE /\ ret.kind = "out_of_range"
           /\ ~rowsObj.live

\* rows(1, 1) on a grid of two rows, traversed to the end: the last row alone.
C6_Witness ==
  /\ call.op = "rows_range" /\ call.a = 1 /\ call.b = 1
  /\ g.y_count_ = 2
  /\ RowsDone
  /\ rowOut = <<1>>

\* C7 as stated: for every grid that can be constructed, rows() produces the
\* rows 0 .. y_count - 1 in increasing order, with Rows::count() == y_count, and
\* a traversal does not change what a later traversal yields.
C7_RowsOfEveryGrid ==
  call.op = "rows" =>
    /\ ret.kind = "ok"
    /\ rowsObj.live
    /\ Rows_count(rowsObj) = g.y_count_
    /\ ProducesRows(0, g.y_count_)

\* C7 amended: for every grid with y_count >= 1, rows() produces the rows
\* 0 .. y_count - 1 in increasing order, with Rows::count() == y_count, and a
\* traversal changes neither the range nor what a later traversal yields; for a
\* grid with y_count == 0, rows() fails with an out-of-range error.
C7_RowsOfNonEmptyGrid ==
  call.op = "rows" =>
    IF g.y_count_ >= 1
      THEN /\ ret.kind = "ok"
           /\ rowsObj = [live |-> TRUE, begin_ |-> 0, end_ |-> g.y_count_]
           /\ Rows_count(rowsObj) = g.y_count_
           /\ ProducesRows(0, g.y_count_)
      ELSE /\ ret = Throw("out_of_range", RowTooLarge)
           /\ ~rowsObj.live

\* The second traversal of rows() on a grid of two rows, at its end.
C7_Witness ==
  /\ call.op = "rows"
  /\ g.y_count_ = 2
  /\ passes = 2
  /\ RowsDone
  /\ rowOut = <<0, 1>>

\* C8: constructing Rows(begin, end) fails with an out-of-range error for every
\* pair with end <= begin, and succeeds with count() == end - begin for every
\* pair with end > begin.
C8_RowsRejectsEmptyAndInverted ==
  call.op = "Rows" =>
    IF call.b <= call.a
      THEN /\ ret.kind = "out_of_range"
           /\ ~rowsObj.live
      ELSE /\ ret.kind = "ok"
           /\ rowsObj.live
           /\ Rows_count(rowsObj) = call.b - call.a

\* Rows(2, 2), the empty range, rejected.
C8_Witness ==
  /\ call.op = "Rows" /\ call.a = 2 /\ call.b = 2
  /\ ret = Throw("out_of_range", RowsEndNotLarger)
  /\ ~rowsObj.live

\* ----------------------------------------------------------- region claims
\* The traversal of points under way has reached end().
RectDone == ptItr.live /\ Iterator_eq(ptItr, GridRectPoints_end(rectObj))

\* The traversal has produced, as its k-th point counting from zero,
\* (origin.x + k mod w, origin.y + k div w), at most w * h of them, and exactly
\* w * h once it has reached end().
ProducesRowMajor(origin, w, h) ==
  /\ Len(ptOut) <= w * h
  /\ \A k \in 0 .. Len(ptOut) - 1 :
       ptOut[k + 1] = Point(origin.x + (k % w), origin.y + (k \div w))
  /\ RectDone => Len(ptOut) = w * h

\* C9 as stated: for every grid and every r < y_count, row(r) and
\* row(RowIterator(r)) produce exactly (0, r), (1, r), ..., (x_count - 1, r) in
\* that order, all of which satisfy contains_point; for every r >= y_count,
\* row(r) fails with an out-of-range error.
C9_RowOfEveryGrid ==
  call.op = "row" =>
    IF call.a < g.y_count_
      THEN /\ ret.kind = "ok"
           /\ Len(ptOut) <= g.x_count_
           /\ \A k \in 1 .. Len(ptOut) :
                ptOut[k] = Point(k - 1, call.a) /\ contains_point(g, ptOut[k])
           /\ RectDone => Len(ptOut) = g.x_count_
      ELSE ret.kind = "out_of_range"

\* C9 amended: for every grid with x_count >= 1 and every r < y_count, row(r)
\* and row(RowIterator(r)) produce exactly (0, r), ..., (x_count - 1, r) in that
\* order, all of which satisfy contains_point; for every r >= y_count, row(r)
\* fails with an out-of-range error; for a grid with x_count == 0 and
\* r < y_count, row(r) fails with an invalid-argument error.
C9_RowOfGridWithColumns ==
  call.op = "row" =>
    IF call.a >= g.y_count_
      THEN ret = Throw("out_of_range", RowTooLarge) /\ ~rectObj.live
    ELSE IF g.x_count_ = 0
      THEN ret = Throw("invalid_argument", XCountZero) /\ ~rectObj.live
    ELSE /\ ret.kind = "ok"
         /\ rectObj.live
         /\ ProducesRowMajor(Point(0, call.a), g.x_count_, 1)
         /\ \A k \in 1 .. Len(ptOut) :
              ptOut[k] = Point(k - 1, call.a) /\ contains_point(g, ptOut[k])

\* row(1) on a 2x2 grid, traversed to the end.
C9_Witness ==
  /\ call.op = "row" /\ call.a = 1
  /\ g.x_count_ = 2 /\ g.y_count_ = 2
  /\ RectDone
  /\ ptOut = <<Point(0, 1), Point(1, 1)>>

\* C10: for GridRectPoints(origin, w, h) with w >= 1 and h >= 1, iteration from
\* begin() yields as its k-th position (0 <= k < w * h) the point
\* (origin.x + k mod w, origin.y + k div w): row-major order, every position of
\* the rectangle exactly once and none outside it.
C10_RectIsRowMajor ==
  (call.op = "GridRectPoints" /\ call.a >= 1 /\ call.b >= 1) =>
    /\ ret.kind = "ok"
    /\ rectObj.live
    /\ ProducesRowMajor(call.p, call.a, call.b)

\* The test's GridRectPoints(Point(4, 7), 2, 3), traversed to the end.
C10_Witness ==
  /\ call.op = "GridRectPoints"
  /\ call.p = Point(4, 7) /\ call.a = 2 /\ call.b = 3
  /\ RectDone
  /\ ptOut = <<Point(4, 7), Point(5, 7), Point(4, 8), Point(5, 8),
               Point(4, 9), Point(5, 9)>>

\* C11: for GridRectPoints(origin, w, h) with w >= 1 and h >= 1, end() is the
\* sentinel at (origin.x, origin.y + h); an iterator started at begin() equals
\* end() after exactly w * h increments and after no smaller number, so the
\* begin()/end() loop stops after w * h steps.
C11_EndAfterExactlyAllPoints ==
  (call.op = "GridRectPoints" /\ call.a >= 1 /\ call.b >= 1) =>
    /\ rectObj.live
    /\ GridRectPoints_end(rectObj) =
         IteratorAt(Point(call.p.x, call.p.y + call.b))
    /\ ptItr.live =>
         /\ Len(ptOut) <= call.a * call.b
         /\ RectDone <=> Len(ptOut) = call.a * call.b
         /\ ~RectDone => ENABLED RectStep

\* The test's region after its sixth increment: the iterator is at (4, 10) and
\* equals end().
C11_Witness ==
  /\ call.op = "GridRectPoints"
  /\ call.p = Point(4, 7) /\ call.a = 2 /\ call.b = 3
  /\ Len(ptOut) = 6
  /\ Iterator_deref(ptItr) = Point(4, 10)
  /\ Iterator_eq(ptItr, GridRectPoints_end(rectObj))

\* C12: constructing GridRectPoints(origin, w, h) fails whenever w == 0 or
\* h == 0, leaving no region to iterate (not an empty iteration), and
\* constructing GridRectPoints::Iterator(begin, x_count) fails whenever
\* x_count == 0.
C12_ZeroAreaRejected ==
  /\ (call.op = "GridRectPoints" /\ (call.a = 0 \/ call.b = 0)) =>
       /\ ret.kind = "invalid_argument"
       /\ ret.msg = IF call.a = 0 THEN XCountZero ELSE YCountZero
       /\ ~rectObj.live
       /\ ~ptItr.live
       /\ ptOut = <<>>
       /\ ~ENABLED RectBegin
       /\ ~ENABLED RectStep
  /\ (call.op = "Iterator" /\ call.a = 0) =>
       /\ ret = Throw("invalid_argument", XCountZero)
       /\ ~ptItr.live

\* A region two columns wide and no rows high, rejected.
C12_Witness ==
  /\ call.op = "GridRectPoints"
  /\ call.p = Point(4, 7) /\ call.a = 2 /\ call.b = 0
  /\ ret = Throw("invalid_argument", YCountZero)
  /\ ~rectObj.live

\* ------------------------------------------------------ constructor claims
\* The k-th pair, counting from zero, of the row-major enumeration of a grid
\* with xc columns.
RowMajorPair(k, xc) == <<k % xc, k \div xc>>

\* C13: Grid(x_count, y_count, init) calls init exactly once for each (x, y)
\* with 0 <= x < x_count and 0 <= y < y_count, in the order (0,0), (1,0), ...,
\* (x_count-1,0), (0,1), ... (y outer, x inner), and afterwards grid[(x, y)]
\* equals the value init returned for (x, y).
C13_InitCalledRowMajor ==
  ctorCall.op = "Grid_init" =>
    /\ \A k \in 0 .. Len(initCalls) - 1 :
         initCalls[k + 1] = RowMajorPair(k, g.x_count_)
    /\ Len(g.cells_) = Len(initCalls)
    /\ ctorPc = "done" =>
         /\ Len(initCalls) = g.x_count_ * g.y_count_
         /\ \A q \in ValidPoints(g.x_count_, g.y_count_) :
              operator_index_read(g, q) = {Return(init(q.x, q.y))}
         /\ (call.op = "read" /\ InRange(g, call.p)) =>
              ret = Return(init(call.p.x, call.p.y))
         /\ g = GridInit(ctorCall.a, ctorCall.b)

\* A 2x2 grid whose constructor has returned after the calls (0,0), (1,0),
\* (0,1), (1,1), read at (0, 1).
C13_Witness ==
  /\ ctorPc = "done"
  /\ initCalls = <<(<<0, 0>>), (<<1, 0>>), (<<0, 1>>), (<<1, 1>>)>>
  /\ call.op = "read" /\ call.p = Point(0, 1)
  /\ ret = Return(init(0, 1))

\* C14: after Grid(x_count, y_count, v), x_count() and y_count() return the
\* given dimensions, count() == x_count * y_count, and every valid cell reads
\* as v.
C14_FillConstructor ==
  ctorCall.op = "Grid_fill" =>
    /\ x_count(g) = ctorCall.a
    /\ y_count(g) = ctorCall.b
    /\ count(g) = ctorCall.a * ctorCall.b
    /\ \A q \in ValidPoints(ctorCall.a, ctorCall.b) :
         operator_index_read(g, q) = {Return(ctorCall.v)}
    /\ call.op = "x_count" => ret = Return(ctorCall.a)
    /\ call.op = "y_count" => ret = Return(ctorCall.b)
    /\ call.op = "count" => ret = Return(ctorCall.a * ctorCall.b)
    /\ ( /\ call.op = "read"
         /\ 0 <= call.p.x /\ call.p.x < ctorCall.a
         /\ 0 <= call.p.y /\ call.p.y < ctorCall.b ) =>
         ret = Return(ctorCall.v)

\* Grid(2, 1, 1) read at its last cell, (1, 0).
C14_Witness ==
  /\ ctorCall = CtorCall("Grid_fill", 2, 1, 1)
  /\ count(g) = 2
  /\ call.op = "read" /\ call.p = Point(1, 0)
  /\ ret = Return(1)

\* ----------------------------------------------------- cell iteration claims
\* The traversal of all cells under way has reached end().
FlatDone == flatItr.live /\ flatItr = Grid_end(g)

\* C15: iteration over a grid from begin() to end(), and the binding's
\* __iter__, visits every cell exactly once in row-major order: the k-th element
\* visited (0 <= k < count()) is the cell at (k mod x_count, k div x_count), and
\* the binding's __len__ equals the number of elements visited.
C15_FlatIterationRowMajor ==
  /\ [](flatItr.live =>
          /\ flatItr.pos = Len(flatOut)
          /\ Len(flatOut) <= count(g)
          /\ FlatDone <=> Len(flatOut) = count(g)
          /\ \A k \in 0 .. count(g) - 1 :
               /\ InRange(g, PointOfCell(g, k))
               /\ operator_index_read(g, PointOfCell(g, k)) =
                    {Return(lastWritten[PointOfCell(g, k)])})
  /\ [](call.op = "__len__" =>
          /\ ret = Return(count(g))
          /\ FlatDone => ret = Return(Len(flatOut)))
  /\ [][Len(flatOut') = Len(flatOut) + 1 =>
          operator_index_read(g, PointOfCell(g, Len(flatOut))) =
            {Return(flatOut'[Len(flatOut')])}]_vars

\* A 2x2 grid built by the initializer constructor, its cell (0, 1) assigned 1
\* through the iterator during the first traversal, after the second one.
C15_Witness ==
  /\ g.x_count_ = 2 /\ g.y_count_ = 2
  /\ passes = 2
  /\ FlatDone
  /\ flatOut = <<init(0, 0), init(1, 0), 1, init(1, 1)>>
  /\ call.op = "__len__"
  /\ ret = Return(4)

\* C16: a grid's dimensions are fixed for its lifetime: no cell read, cell
\* write (successful or failing), contains_point, rows, row or cell-iteration
\* call changes x_count(), y_count() or count().
C16_DimensionsFixed ==
  [][/\ x_count(g') = x_count(g)
     /\ y_count(g') = y_count(g)
     /\ count(g') = count(g)]_vars

\* A 2x2 grid that has been written, asked for its rows and for a row, and
\* traversed cell by cell to the end, and then refused a write.
C16_Witness ==
  /\ x_count(g) = 2 /\ y_count(g) = 2 /\ count(g) = 4
  /\ writes >= 1
  /\ rowsObj.live
  /\ rectObj.live
  /\ FlatDone
  /\ call.op = "write" /\ ret.kind = "out_of_range"

\* -------------------------------------------------------------- move claims
\* C17: move-constructing or move-assigning a grid gives the destination the
\* source's former x_count, y_count and cell contents in the same order, and
\* leaves the source empty: afterwards the source holds no cells
\* (count() == 0) and no cell of the source can be read or written, every
\* access to it failing.
C17_MovedFromSourceUnusable ==
  moved # "none" =>
    /\ dst = pre
    /\ count(g) = 0
    /\ call.op = "count" => ret = Return(0)
    /\ call.op \in {"read", "write"} => ret.kind = "out_of_range"

\* ------------------------------------------------------- component access
\* A grid that plays no part: empty, constructed, untouched.
GridAside ==
  /\ g = GridFill(0, 0, 0)
  /\ lastWritten = [p \in ValidPoints(0, 0) |-> 0]
  /\ ctorCall = NoCall
  /\ CtorReturned
  /\ Quiet

\* A Point, TVec2 or TVec3 object with sampled components.
InitIndex ==
  /\ vty \in VecTypes
  /\ vec \in Vectors(vty)
  /\ vecB = Point(0, 0)
  /\ vres = Constructed(Point(0, 0))
  /\ GridAside

\* const auto c = vec[i];
IndexRead(i) ==
  /\ call' = VecCall("component_read", i, 0)
  /\ ret' = component_get(vty, vec, i)
  /\ UNCHANGED <<vecVars, cellVars, rowVars, rectVars, ctorVars, flatVars,
                 moveVars>>

\* vec[i] = c;
IndexWrite(i, c) ==
  LET r == component_set(vty, vec, i, c)
  IN  /\ call' = VecCall("component_write", i, c)
      /\ ret' = r.ret
      /\ vec' = r.obj
      /\ UNCHANGED <<vty, vecB, vres, cellVars, rowVars, rectVars, ctorVars,
                     flatVars, moveVars>>

NextIndex ==
  \/ \E i \in ComponentIndices : IndexRead(i)
  \/ \E i \in ComponentIndices, c \in IntSamples : IndexWrite(i, c)

SpecIndex == InitIndex /\ [][NextIndex]_vars

\* The component names of each type, in index order.
ComponentNames(ty) == IF ty = "TVec3" THEN <<"x", "y", "z">> ELSE <<"x", "y">>
ValidComponent(ty, i) == i + 1 \in DOMAIN ComponentNames(ty)

\* C18: for Point and TVec2, v[0] refers to x and v[1] to y; for TVec3, v[2]
\* also refers to z. Every other index fails with an out-of-range error on
\* read and on write. A successful write v[i] = c changes component i only, and
\* a failing write changes no component.
C18_ComponentAccess ==
  /\ [](call.op = "component_read" =>
         IF ValidComponent(vty, call.a)
           THEN ret = Return(vec[ComponentNames(vty)[call.a + 1]])
           ELSE ret.kind = "out_of_range")
  /\ [][call'.op = "component_write" =>
         IF ValidComponent(vty, call'.a)
           THEN /\ ret'.kind = "ok"
                /\ \A n \in DOMAIN vec :
                     vec'[n] = IF n = ComponentNames(vty)[call'.a + 1]
                                 THEN call'.v
                                 ELSE vec[n]
           ELSE /\ ret'.kind = "out_of_range"
                /\ vec' = vec]_vars

\* A write through index 2 of a TVec3 has set z to a value the other
\* components do not have.
C18_Witness ==
  /\ vty = "TVec3"
  /\ call = VecCall("component_write", 2, IntMax)
  /\ ret.kind = "ok"
  /\ vec = TVec3(-1, IntMin, IntMax)

\* ------------------------------------------------------------- arithmetic
\* Two values a (vec) and b (vecB) of one type, with sampled components.
InitArith ==
  /\ vty \in VecTypes
  /\ vec \in Vectors(vty)
  /\ vecB \in Vectors(vty)
  /\ vres = Constructed(vec)
  /\ GridAside

\* One expression over vec and vecB is evaluated; vres is what it produced.
Eval(op, outcomes) ==
  /\ call = NoCall
  /\ call' = VecCall(op, 0, 0)
  /\ vres' \in outcomes
  /\ UNCHANGED <<vty, vec, vecB, ret, cellVars, rowVars, rectVars, ctorVars,
                 flatVars, moveVars>>

\* a + b - b
EvalPlusMinus == Eval("plus_minus", plus_minus(vty, vec, vecB))
\* abs(a)
EvalAbs == Eval("abs", abs(vty, vec))
\* abs(-a)
EvalAbsNegate == Eval("abs_negate", abs_negate(vty, vec))

NextArith == EvalPlusMinus \/ EvalAbs \/ EvalAbsNegate

SpecArith == InitArith /\ [][NextArith]_vars

\* Every component sum of a and b is an int.
SumsFit(a, b) == \A n \in DOMAIN a : a[n] + b[n] \in IntMin .. IntMax
\* No component of v is the smallest int.
NoMinimum(v) == \A n \in DOMAIN v : v[n] # IntMin

\* C19, as stated: for all Point, TVec2<int> and TVec3<int> values a and b
\* over the whole int range, a + b - b == a.
C19_PlusMinusOverWholeRange ==
  call.op = "plus_minus" => vres.obj = vec

\* C19, amended: for all Point, TVec2<int> and TVec3<int> values a and b whose
\* component sums a.x + b.x, a.y + b.y (and a.z + b.z) are representable as
\* int, a + b - b is defined and equals a.
C19_PlusMinusWhereSumsFit ==
  call.op = "plus_minus" /\ SumsFit(vec, vecB) => vres = Constructed(vec)

\* a + b - b was evaluated on TVec3 values with components at both ends of the
\* range, every sum fitting, and gave a.
C19_Witness ==
  /\ call.op = "plus_minus"
  /\ vty = "TVec3"
  /\ vec = TVec3(IntMax, IntMin, -1)
  /\ vecB = TVec3(-1, 1, IntMax)
  /\ vres = Constructed(vec)

\* C20, as stated: for every Point and integer vector v over the whole int
\* range, the smallest int included, abs(v) has every component >= 0 and
\* abs(v) == abs(-v).
C20_AbsOverWholeRange ==
  /\ call.op \in {"abs", "abs_negate"} =>
       \A n \in DOMAIN vres.obj : vres.obj[n] >= 0
  /\ call.op = "abs_negate" => abs(vty, vec) = {vres}

\* C20, amended: for every Point and integer vector v none of whose components
\* is the smallest int, abs(v) is defined and has every component >= 0, and
\* abs(-v) is defined and equals abs(v).
C20_AbsWithoutMinimum ==
  NoMinimum(vec) =>
    /\ call.op \in {"abs", "abs_negate"} =>
         /\ vres.ret.kind = "ok"
         /\ \A n \in DOMAIN vres.obj : vres.obj[n] >= 0
    /\ call.op = "abs_negate" => abs(vty, vec) = {vres}

\* abs(-v) was evaluated on a TVec3 with a negative, a positive and the largest
\* component, and gave what abs(v) gives.
C20_Witness ==
  /\ call.op = "abs_negate"
  /\ vty = "TVec3"
  /\ vec = TVec3(-1, 1, IntMax)
  /\ vres = Constructed(TVec3(1, 1, IntMax))

\* ------------------------------------------------ products and distances
\* Two values a (vec) and b (vecB) of one vector type, int or float.
InitProducts ==
  /\ vty \in {"TVec2", "TVec3"} \cup FloatTypes
  /\ vec \in ProductVectors(vty)
  /\ vecB \in ProductVectors(vty)
  /\ vres = Constructed(vec)
  /\ GridAside

\* One expression over vec and vecB is evaluated; vres holds its value.
EvalValue(op, values) == Eval(op, {Constructed(s) : s \in values})

\* a.length_squared()
EvalLengthSquared == EvalValue("length_squared", length_squared(vty, vec))
\* a.dot(b)
EvalDot == EvalValue("dot", dot(vty, vec, vecB))


\* a.cross(b), for the three-component types
cross(ty, a, b) == TVec3_cross(NumType(ty), a, b)
EvalCross == Is3(vty) /\ EvalValue("cross", cross(vty, vec, vecB))
\* -(b.cross(a)); unary minus is exact on these values in int and in float
EvalNegatedCross ==
  /\ Is3(vty)
  /\ EvalValue("negated_cross",
               UNION {{r.obj : r \in TVec3_negate(c)} :
                        c \in cross(vty, vecB, vec)})
\* a.dot(a.cross(b))
EvalDotCross ==
  /\ Is3(vty)
  /\ EvalValue("dot_cross",
               UNION {dot(vty, vec, c) : c \in cross(vty, vec, vecB)})
\* b.dot(a.cross(b))
EvalDotCrossOther ==
  /\ Is3(vty)
  /\ EvalValue("dot_cross_other",
               UNION {dot(vty, vecB, c) : c \in cross(vty, vec, vecB)})

\* distance_squared(a, b)
EvalDistanceSquared ==
  EvalValue("distance_squared", distance_squared(vty, vec, vecB))
\* distance(a, b)
EvalDistance == EvalValue("distance", distance(vty, vec, vecB))

NextProducts ==
  \/ EvalLengthSquared
  \/ EvalDot
  \/ EvalDistanceSquared
  \/ EvalDistance
  \/ EvalCross
  \/ EvalNegatedCross
  \/ EvalDotCross
  \/ EvalDotCrossOther

SpecProducts == InitProducts /\ [][NextProducts]_vars

\* The squares of v's components and their running sums, exactly, in the
\* order length_squared adds them.
SquareSums(v) ==
  IF "z" \in DOMAIN v
    THEN <<v.x * v.x, v.y * v.y, v.x * v.x + v.y * v.y, v.z * v.z,
           v.x * v.x + v.y * v.y + v.z * v.z>>
    ELSE <<v.x * v.x, v.y * v.y, v.x * v.x + v.y * v.y>>
SumOfSquares(v) == SquareSums(v)[Len(SquareSums(v))]
\* T holds each of these exact results.
Representable(T, es) == \A e \in es : NumResult(T, e) = {e}

CrossProduct(a, b) ==
  TVec3(a.y * b.z - a.z * b.y, a.z * b.x - a.x * b.z, a.x * b.y - a.y * b.x)
\* The exact products and differences a.cross(b) computes.
CrossTerms(a, b) ==
  {a.y * b.z, a.z * b.y, a.z * b.x, a.x * b.z, a.x * b.y, a.y * b.x,
   CrossProduct(a, b).x, CrossProduct(a, b).y, CrossProduct(a, b).z}
\* The exact products and partial sums a.dot(c) computes.
DotTerms(a, c) ==
  {a.x * c.x, a.y * c.y, a.z * c.z, a.x * c.x + a.y * c.y,
   a.x * c.x + a.y * c.y + a.z * c.z}

\* What C22 says of the cross product itself: a.cross(b) is
\* (a.y*b.z - a.z*b.y, a.z*b.x - a.x*b.z, a.x*b.y - a.y*b.x), exactly so where
\* the component type holds these products and differences, and
\* -(b.cross(a)) is the same value.
CrossFormula ==
  /\ call.op = "cross" /\ Representable(NumType(vty), CrossTerms(vec, vecB))
       => vres.obj = CrossProduct(vec, vecB)
  /\ call.op = "negated_cross" => cross(vty, vec, vecB) = {vres.obj}

C23_DistanceSymmetric ==
  /\ call.op = "distance_squared" =>
       /\ distance_squared(vty, vecB, vec) = {vres.obj}
       /\ UNION {length_squared(vty, d) : d \in difference(vty, vecB, vec)}
            = {vres.obj}
       /\ vec = vecB => vres.obj = 0
  /\ call.op = "distance" =>
       /\ distance(vty, vecB, vec) = {vres.obj}
       /\ vec = vecB => vres.obj = 0

\* distance_squared was evaluated on two float Vec3 values differing in every
\* component, where the squares are rounded.
C23_Witness ==
  /\ call.op = "distance_squared"
  /\ vty = "Vec3"
  /\ vec = TVec3(-3, 2, 0)
  /\ vecB = TVec3(2, -1, 1)
  /\ vres.obj # 35
  /\ vres.obj > 0

\* ------------------------------------------------------- value semantics
\* The scalars values are multiplied, divided and reduced by; zero is left
\* out, division by it being undefined.
Scalars == {-2, -1, 1, 2, 3}
\* The operators with two operands of the same type, with a scalar on the
\* right, and with one operand.
VectorOps == {"plus", "minus"}
ScalarOps == {"times", "divide", "modulo"}

\* Two Point, TVec2<int> or TVec3<int> objects a (vec) and b (vecB).
InitValue ==
  /\ vty \in VecTypes
  /\ vec \in ProductVectors(vty)
  /\ vecB \in {w \in ProductVectors(vty) : \A n \in DOMAIN w : w[n] \in {-1, 2}}
  /\ vres = Constructed(vec)
  /\ GridAside

\* The outcomes of a op b, a op r and -a.
OpOutcomes(op, ty, a, b, r) ==
  CASE op = "plus" -> plus(ty, a, b)
    [] op = "minus" -> minus(ty, a, b)
    [] op = "times" -> times(ty, a, r)
    [] op = "divide" -> divide(ty, a, r)
    [] op = "modulo" -> modulo(ty, a, r)
    [] op = "negate" -> negate(ty, a)

\* const auto c = vec op vecB;  const auto c = vec op r;  const auto c = -vec;
\* The left operand is passed by value and the right one by const reference:
\* the operator works on its copy.
BinaryOp(op, r) ==
  /\ call = NoCall
  /\ call' = VecCall(op, 0, r)
  /\ vres' \in OpOutcomes(op, vty, vec, vecB, r)
  /\ UNCHANGED <<vty, vec, vecB, ret, cellVars, rowVars, rectVars, ctorVars,
                 flatVars, moveVars>>

\* vec op= vecB;  vec op= r;  The operator changes *this and returns it.
CompoundAssign(op, r) ==
  /\ call = NoCall
  /\ call' = VecCall(op, 1, r)
  /\ vres' \in OpOutcomes(op, vty, vec, vecB, r)
  /\ vec' = vres'.obj
  /\ UNCHANGED <<vty, vecB, ret, cellVars, rowVars, rectVars, ctorVars,
                 flatVars, moveVars>>

NextValue ==
  \/ \E op \in VectorOps \cup {"negate"} : BinaryOp(op, 0)
  \/ \E op \in ScalarOps, r \in Scalars : BinaryOp(op, r)
  \/ \E op \in VectorOps : CompoundAssign(op, 0)
  \/ \E op \in ScalarOps, r \in Scalars : CompoundAssign(op, r)

SpecValue == InitValue /\ [][NextValue]_vars

\* What op gives component by component, exactly.
ComponentWise(op, a, b, r) ==
  [n \in DOMAIN a |->
     CASE op = "plus" -> a[n] + b[n]
       [] op = "minus" -> a[n] - b[n]
       [] op = "times" -> a[n] * r
       [] op = "divide" -> TruncDiv(a[n], r)
       [] op = "modulo" -> TruncRem(a[n], r)
       [] op = "negate" -> -a[n]]

\* C24: Point, TVec2 and TVec3 have value semantics. The binary operators +,
\* -, scalar *, / and integer %, and unary -, return a new value computed
\* component by component and leave their operands unchanged; a compound
\* assignment a op= r changes only a, and afterwards a is the value that
\* (old a) op r returns.
C24_ValueSemantics ==
  [][/\ call'.a = 0 =>
          /\ vec' = vec
          /\ vecB' = vecB
          /\ vres'.obj = ComponentWise(call'.op, vec, vecB, call'.v)
     /\ call'.a = 1 =>
          /\ vecB' = vecB
          /\ vec' = ComponentWise(call'.op, vec, vecB, call'.v)
          /\ vec' \in {o.obj : o \in
                         OpOutcomes(call'.op, vty, vec, vecB, call'.v)}]_vars

\* vec /= 2 has run on the Point (-3, 2): the quotients are truncated toward
\* zero, and the other operand is as it was.
C24_Witness ==
  /\ call = VecCall("divide", 1, 2)
  /\ vty = "Point"
  /\ vec = Point(-1, 1)
  /\ vres = Constructed(vec)
  /\ vecB = Point(2, -1)

\* ---------------------------------------------------------- state tuples
\* The elements of the tuples handed to __setstate__, and the tuples: of
\* every length up to one more than any type takes.
PyValues == {PyInt(0), PyInt(IntMax + 1), PyFloat(1), PyFloat(9)}
MaxTuple == 4
Tuples == UNION {[1 .. n -> PyValues] : n \in 0 .. MaxTuple}

\* A Point, Vec2 or Vec3 object of the host.
InitPickle ==
  /\ vty \in HostTypes
  /\ vec \in HostVectors(vty)
  /\ vecB = Point(0, 0)
  /\ vres = Constructed(Point(0, 0))
  /\ GridAside

\* vres is what a call on the pickling support of vty returned.
PickleCall(c, r) ==
  /\ call' = c
  /\ vres' = r
  /\ UNCHANGED <<vty, vec, vecB, ret, cellVars, rowVars, rectVars, ctorVars,
                 flatVars, moveVars>>

\* t = vec.__getstate__()
Serialize ==
  /\ call = NoCall
  /\ PickleCall(VecCall("getstate", 0, 0), Constructed(getstate(vty, vec)))

\* The tuple just produced is handed to __setstate__.
Deserialize ==
  /\ call.op = "getstate"
  /\ PickleCall(VecCall("setstate_own", Len(vres.obj), 0),
                setstate(vty, vres.obj))

\* Some tuple is handed to __setstate__.
DeserializeTuple(t) ==
  /\ call = NoCall
  /\ PickleCall(VecCall("setstate", Len(t), 0), setstate(vty, t))

NextPickle ==
  \/ Serialize
  \/ Deserialize
  \/ \E t \in Tuples : DeserializeTuple(t)

SpecPickle == InitPickle /\ [][NextPickle]_vars

\* The number of components of each type.
Arity(ty) == IF Is3(ty) THEN 3 ELSE 2

\* C25: for every Point, Vec2 and Vec3 value v, the state tuple of v holds
\* its components in the order (x, y[, z]) and deserializing it gives a value
\* equal to v; deserializing a tuple whose length is not 2 (Point, Vec2) or 3
\* (Vec3) fails and produces no value.
C25_PickleRoundTrip ==
  /\ call.op = "getstate" =>
       /\ Len(vres.obj) = Arity(vty)
       /\ vres.obj[1].val = vec.x
       /\ vres.obj[2].val = vec.y
       /\ Is3(vty) => vres.obj[3].val = vec.z
  /\ call.op = "setstate_own" => vres = Constructed(vec)
  /\ call.op = "setstate" /\ call.a # Arity(vty) =>
       /\ vres.ret.kind = "runtime_error"
       /\ vres.obj = NoValue

\* The state tuple of a Point with different components at the ends of the
\* int range was deserialized and gave the Point back.
C25_Witness ==
  /\ call.op = "setstate_own"
  /\ vty = "Point"
  /\ vec = Point(IntMin, IntMax)
  /\ vres.obj = vec

\* ------------------------------------------- Grid(x_count, y_count, list)
\* The lists callers pass: up to MaxDim + 1 rows of up to MaxDim + 1 elements,
\* element x of row y holding the value init(x, y), so that every position of
\* the list holds a value of its own.
ListLengths == 0 .. MaxDim + 1
ListOf(lens) ==
  [y \in 1 .. Len(lens) |-> [x \in 1 .. lens[y] |-> init(x - 1, y - 1)]]
Lists ==
  {ListOf(lens) : lens \in UNION {[1 .. n -> ListLengths] : n \in ListLengths}}

\* No grid has been constructed yet.
InitList ==
  /\ g = NoGrid
  /\ lastWritten = [p \in ValidPoints(0, 0) |-> 0]
  /\ ctorCall = NoCall
  /\ CtorReturned
  /\ Fresh

\* g = Grid(xc, yc, initial) on the host.
ConstructFromList(xc, yc, initial) ==
  /\ ctorCall = NoCall
  /\ LET r == Grid_from_list(xc, yc, initial) IN
       /\ g' = r.obj
       /\ ret' = r.ret
       /\ lastWritten' =
            [p \in ValidPoints(x_count(r.obj), y_count(r.obj)) |->
               initial[p.y + 1][p.x + 1]]
  /\ call' = CtorCall("Grid_list", xc, yc, 0)
  /\ ctorCall' = call'
  /\ ctorList' = initial
  /\ UNCHANGED <<writes, rowVars, rectVars, ctorPc, ctorX, ctorY, initCalls,
                 extVars>>

\* grid[p] on a grid the list constructor returned.
ReadSeeded(p) ==
  /\ ctorCall.op = "Grid_list"
  /\ call.op = "Grid_list" => ret.kind = "ok"
  /\ CallRead(p)

NextList ==
  \/ \E xc \in Dims, yc \in Dims, initial \in Lists :
       ConstructFromList(xc, yc, initial)
  \/ \E p \in Points : ReadSeeded(p)

SpecList == InitList /\ [][NextList]_vars

\* The shape of the list differs from the declared dimensions.
ShapeDiffers(xc, yc, initial) ==
  \/ Len(initial) # yc
  \/ \E y \in 1 .. Len(initial) : Len(initial[y]) # xc

\* C26: constructing a Grid from (x_count, y_count, list) signals a value
\* error for every list whose number of rows differs from y_count or one of
\* whose rows has a length other than x_count, whatever the dimensions; when
\* the shape matches, the grid is built and cell (x, y) holds element x of
\* row y.
C26_ListShapeChecked ==
  /\ call.op = "Grid_list" =>
       IF ShapeDiffers(call.a, call.b, ctorList)
         THEN ret.kind = "value_error"
         ELSE /\ ret.kind = "ok"
              /\ x_count(g) = call.a
              /\ y_count(g) = call.b
              /\ \A q \in ValidPoints(call.a, call.b) :
                   operator_index_read(g, q) =
                     {Return(ctorList[q.y + 1][q.x + 1])}
  /\ ( /\ ctorCall.op = "Grid_list"
       /\ call.op = "read"
       /\ ret.kind = "ok" ) =>
       ret.val = ctorList[call.p.y + 1][call.p.x + 1]

\* ------------------------------------------- lengths on the host
\* A Vec2 or Vec3 the host holds.
InitHost ==
  /\ vty \in FloatTypes
  /\ vec \in ProductVectors(vty)
  /\ vecB = vec
  /\ vres = Constructed(vec)
  /\ GridAside

\* v.length() on the host
EvalHostLength == EvalValue("host_length", host_length(vty, vec))
\* v.length_squared() on the host
EvalHostLengthSquared ==
  EvalValue("host_length_squared", host_length_squared(vty, vec))

NextHost ==
  \/ EvalHostLength
  \/ EvalHostLengthSquared
  \/ EvalLengthSquared

SpecHost == InitHost /\ [][NextHost]_vars

\* C27: length_squared as the host sees it on Vec2 and Vec3 returns the sum of
\* the squared components, the value of the core length_squared(), and
\* differs from length() whenever the length is neither 0 nor 1.
C27_HostLengthSquared ==
  call.op = "host_length_squared" =>
    /\ vres.obj \in length_squared(vty, vec)
    /\ \A l \in host_length(vty, vec) : l \notin {0, 1} => vres.obj # l

\* ------------------------------------------------------ the size invariant
\* C28: in every reachable state of a Grid (after either constructor, after
\* any sequence of cell writes, and after being the source or the destination
\* of a move construction or a move assignment), count() is
\* x_count() * y_count().
C28_CountIsProduct ==
  /\ count(g) = x_count(g) * y_count(g)
  /\ moved # "none" => count(dst) = x_count(dst) * y_count(dst)
  /\ call.op = "count" => ret = Return(x_count(g) * y_count(g))

\* --------------------------------------- the predicate and the accessor
\* grid[p] succeeds, on every outcome the build can produce.
ReadSucceeds(this, p) == \A o \in operator_index_read(this, p) : o.kind = "ok"
\* grid[p] fails with an out-of-range error.
ReadOutOfRange(this, p) ==
  \A o \in operator_index_read(this, p) : o.kind = "out_of_range"

\* C29: in every reachable Grid state and for every Point p, contains_point(p)
\* is true exactly when grid[p] succeeds and refers to an existing cell (its
\* storage offset p.y * x_count + p.x is below count()), and false exactly
\* when grid[p] fails with an out-of-range error: the predicate and the
\* bounds-checked accessor never disagree.
C29_ContainsPointAgrees ==
  /\ \A q \in Points :
       /\ contains_point(g, q) <=>
            /\ ReadSucceeds(g, q)
            /\ unchecked_xy_index(g, q.x, q.y) < count(g)
       /\ ~contains_point(g, q) <=> ReadOutOfRange(g, q)
  /\ call.op = "contains_point" =>
       /\ ret.flag <=> ReadSucceeds(g, call.p)
       /\ ~ret.flag <=> ReadOutOfRange(g, call.p)

\* ------------------------------------------------ Point // k on the host
\* A Point the host holds.
InitFloorDiv ==
  /\ vty = "Point"
  /\ vec \in ProductVectors(vty)
  /\ vecB = vec
  /\ vres = Constructed(vec)
  /\ GridAside

\* p // k on the host
HostFloorDiv(k) ==
  /\ call = NoCall
  /\ call' = VecCall("floordiv", 0, k)
  /\ vres' \in Point_floordiv(vec, k)
  /\ UNCHANGED <<vty, vec, vecB, ret, cellVars, rowVars, rectVars, ctorVars,
                 flatVars, moveVars>>

NextFloorDiv ==
  \/ \E k \in Scalars : HostFloorDiv(k)
  \/ \E k \in Scalars : BinaryOp("divide", k)
  \/ \E k \in Scalars : BinaryOp("modulo", k)

SpecFloorDiv == InitFloorDiv /\ [][NextFloorDiv]_vars

\* C30: Point.__floordiv__(k) on the host, for an integer k other than zero,
\* returns the same Point as Point / k: each component c is divided by k
\* with truncation toward zero, so the quotient q leaves the remainder
\* c - q * k, which is c % k, is smaller than k in magnitude and is zero or
\* has the sign of c.
C30_FloorDivTruncates ==
  call.op = "floordiv" =>
    /\ vres \in Point_divide(vec, call.v)
    /\ vres.ret.kind = "ok"
    /\ \A n \in DOMAIN vec :
         LET c == vec[n]
             q == vres.obj[n]
             r == c - q * call.v
         IN  /\ IntRemainder(c, call.v) = {r}
             /\ std_abs(r) < std_abs(call.v)
             /\ r = 0 \/ (r < 0) = (c < 0)
C30_Witness ==
  /\ call.op = "floordiv"
  /\ call.v = 2
  /\ vec = Point(-3, 2)
  /\ vres.obj = Point(-1, 1)

====
